---- MODULE Spec2Model ----
(***************************************************************************)
(* Streaming itinerary generation of the travel planner backend:           *)
(* TravelService.generate_itinerary_stream and its response parser         *)
(* TravelService._parse_itinerary_response                                 *)
(* (src/backend/app/services/travel_service.py), with the itinerary-detail *)
(* upsert of src/backend/app/crud/travel_crud.py.                          *)
(*                                                                         *)
(* Texts are sequences of lexical tokens: punctuation, one whitespace      *)
(* token, string literals, number literals, null, prose and the Markdown   *)
(* fence.  An activity token stands for the text of one complete JSON      *)
(* object literal (ActValue gives the object it decodes to).  Number       *)
(* tokens are never adjacent in the texts the model builds.                *)
(***************************************************************************)
EXTENDS Integers, Sequences, FiniteSets, TLC

VARIABLES
    p_in,       \* parser run: the input (kind, text, days and, for a wrapped object, its parts)
    p_pc,       \* parser run: "idle" (not used), "call" (before the call), "ret" (returned)
    p_result,   \* parser run: the returned value
    a_in,       \* anchor run: the records, the day count, the day and the geocoder
    a_pc,       \* anchor run: "call" before the call, "ret" after it
    a_out,      \* anchor run: the start and end point of the day
    inp,        \* stream run: the arguments and the environment (days, notes, hasStream, geo, world, key)
    pc,         \* stream run: the yield the generator is suspended at, "in_day" after the commit of a day
    out,        \* stream run: what the generator has yielded, in order
    chunks,     \* stream run: the chunks llm.stream has yet to deliver
    llm_fails,  \* stream run: llm.stream raises once its chunks are delivered
    text_buf,   \* stream run: the response text collected so far
    itinerary_data,     \* stream run: the parsed plan
    attractions,        \* stream run: the recommended attractions
    restaurants,        \* stream run: the recommended restaurants
    flights,            \* stream run: the flights of the plan
    accommodations,     \* stream run: the accommodations of the plan
    day_num,            \* stream run: the last day the persist loop has completed
    itinerary_details,  \* stream run: the details collected for the result
    store,      \* the rows of the itinerary_details table, in the order of their insertion
    other,      \* a second request on the same table: what it runs, its plan and its progress
    calls,      \* the calls to the geocoder and to the upsert, in order
    outcomes,   \* what create_itinerary_detail did on each call: "ok", "none", "raise"
    fault       \* the collaborator that raised: "none", "llm", "fetch"

avars == <<a_in, a_pc, a_out>>
pvars == <<p_in, p_pc, p_result>>
svars == <<inp, pc, out, chunks, llm_fails, text_buf, itinerary_data, attractions,
           restaurants, flights, accommodations, day_num, itinerary_details, store, other,
           calls, outcomes, fault>>
vars == <<avars, pvars, svars>>

----------------------------------------------------------------------------
(* Bounds of the model.                                                     *)

MaxLen == 4      \* longest text of the exhaustive parser inputs
MaxPre == 2      \* longest leading wrapping of a wrapped object
MaxPost == 2     \* longest trailing wrapping of a wrapped object
MaxDays == 2     \* largest day count
MaxDate == 3     \* latest date of the anchor runs, and their largest day count

----------------------------------------------------------------------------
(* JSON values as Python holds them after json.loads.                       *)

Null == [t |-> "null", s |-> "", n |-> 0, m |-> <<>>]
Str(x) == [t |-> "str", s |-> x, n |-> 0, m |-> <<>>]
Num(k) == [t |-> "num", s |-> "", n |-> k, m |-> <<>>]
Pair(k, v) == [k |-> k, v |-> v]

RECURSIVE ElemPairs(_)
ElemPairs(vals) ==
    IF vals = <<>> THEN <<>>
    ELSE <<Pair("", Head(vals))>> \o ElemPairs(Tail(vals))

\* a list; its elements are kept as pairs with an empty key
Arr(vals) == [t |-> "arr", s |-> "", n |-> 0, m |-> ElemPairs(vals)]
\* a dict; members is a sequence of pairs with distinct keys, in insertion order
Obj(members) == [t |-> "obj", s |-> "", n |-> 0, m |-> members]

IsDict(v) == v.t = "obj"
IsList(v) == v.t = "arr"
IsStr(v) == v.t = "str"
IsNum(v) == v.t = "num"

Items(v) == [i \in 1..Len(v.m) |-> v.m[i].v]
HasKey(v, k) == \E i \in 1..Len(v.m) : v.m[i].k = k

\* dict.get(k, dflt)
GetOr(v, k, dflt) ==
    IF HasKey(v, k)
    THEN v.m[CHOOSE i \in 1..Len(v.m) : v.m[i].k = k].v
    ELSE dflt

\* dict.get(k)
Get(v, k) == GetOr(v, k, Null)

\* d[k] = x : an existing key keeps its place, a new key goes last
ObjPut(members, k, x) ==
    IF \E i \in 1..Len(members) : members[i].k = k
    THEN [i \in 1..Len(members) |->
            IF members[i].k = k THEN Pair(k, x) ELSE members[i]]
    ELSE Append(members, Pair(k, x))

\* Python truthiness
Truthy(v) ==
    CASE v.t = "null" -> FALSE
      [] v.t = "str" -> v.s /= ""
      [] v.t = "num" -> v.n /= 0
      [] OTHER -> Len(v.m) > 0

----------------------------------------------------------------------------
(* Tokens.                                                                  *)

WS == {" "}
\* the Markdown fence, three backquotes
FenceTok == "FENCE"
FenceTags == {"json", "JSON"}
DayKeys == <<"day_1", "day_2", "day_3", "day_4", "day_5", "day_6", "day_7", "day_8", "day_9">>
DayKey(d) == DayKeys[d]
\* the texts "day d itinerary" of the default plans
Themes == <<"theme_1", "theme_2", "theme_3", "theme_4", "theme_5", "theme_6", "theme_7", "theme_8", "theme_9">>
FieldNames == {"theme", "schedule", "morning", "afternoon", "evening", "tips",
               "spots", "restaurants", "items", "name", "location", "type",
               "latitude", "longitude", "cuisine", "cuisine_type", "price_range",
               "restaurant", "spot"}
StrLits == {"k", "s", "A", "B", "R", "T", ""} \cup FieldNames
             \cup {DayKeys[i] : i \in 1..Len(DayKeys)}
             \cup {Themes[i] : i \in 1..Len(Themes)}
NumToks == {"0", "5"}
NumVal(tok) == IF tok = "0" THEN 0 ELSE 5
NullTok == "null"

\* the activity object literals an LLM text may hold
ActToks == {"ActA", "ActB", "ActR", "ActT", "ActN", "ActX"}
ActValue(tok) ==
    CASE tok = "ActA" -> Obj(<<Pair("name", Str("A")), Pair("latitude", Num(5)), Pair("longitude", Num(5))>>)
      [] tok = "ActB" -> Obj(<<Pair("name", Str("B"))>>)
      [] tok = "ActR" -> Obj(<<Pair("name", Str("R")), Pair("cuisine", Str("k"))>>)
      [] tok = "ActT" -> Obj(<<Pair("type", Str("restaurant")), Pair("name", Str("T")),
                               Pair("latitude", Num(5)), Pair("longitude", Num(5))>>)
      [] tok = "ActN" -> Obj(<<Pair("type", Str("spot")), Pair("cuisine", Str("k"))>>)
      [] OTHER -> Obj(<<Pair("name", Num(5))>>)

----------------------------------------------------------------------------
(* json.loads and JSONDecoder.raw_decode on token texts.                    *)

RECURSIVE SkipWs(_, _)
SkipWs(t, i) ==
    IF i <= Len(t) /\ t[i] \in WS THEN SkipWs(t, i + 1) ELSE i

At(t, i) == IF i >= 1 /\ i <= Len(t) THEN t[i] ELSE "<eof>"

Fail == [ok |-> FALSE, v |-> Null, e |-> 0]
Ok(v, e) == [ok |-> TRUE, v |-> v, e |-> e]

RECURSIVE ParseValue(_, _)
RECURSIVE ParseMembers(_, _, _)
RECURSIVE ParseElems(_, _, _)

\* scan_once of the decoder at index i: one JSON value, no whitespace skipped before it
ParseValue(t, i) ==
    LET c == At(t, i) IN
    CASE c \in StrLits -> Ok(Str(c), i + 1)
      [] c \in NumToks -> Ok(Num(NumVal(c)), i + 1)
      [] c = NullTok -> Ok(Null, i + 1)
      [] c \in ActToks -> Ok(ActValue(c), i + 1)
      [] c = "{" ->
            LET j == SkipWs(t, i + 1) IN
            IF At(t, j) = "}" THEN Ok(Obj(<<>>), j + 1)
            ELSE ParseMembers(t, j, <<>>)
      [] c = "[" ->
            LET j == SkipWs(t, i + 1) IN
            IF At(t, j) = "]" THEN Ok(Arr(<<>>), j + 1)
            ELSE ParseElems(t, j, <<>>)
      [] OTHER -> Fail

\* JSONObject: "key" : value, then "," or "}"
ParseMembers(t, j, acc) ==
    IF At(t, j) \notin StrLits THEN Fail
    ELSE
      LET c == SkipWs(t, j + 1) IN
      IF At(t, c) /= ":" THEN Fail
      ELSE
        LET r == ParseValue(t, SkipWs(t, c + 1)) IN
        IF ~r.ok THEN Fail
        ELSE
          LET e == SkipWs(t, r.e)
              acc2 == ObjPut(acc, t[j], r.v)
          IN
          CASE At(t, e) = "}" -> Ok(Obj(acc2), e + 1)
            [] At(t, e) = "," -> ParseMembers(t, SkipWs(t, e + 1), acc2)
            [] OTHER -> Fail

\* JSONArray: value, then "," or "]"
ParseElems(t, j, acc) ==
    LET r == ParseValue(t, j) IN
    IF ~r.ok THEN Fail
    ELSE
      LET e == SkipWs(t, r.e)
          acc2 == Append(acc, r.v)
      IN
      CASE At(t, e) = "]" -> Ok(Arr(acc2), e + 1)
        [] At(t, e) = "," -> ParseElems(t, SkipWs(t, e + 1), acc2)
        [] OTHER -> Fail

\* json.loads(t): one value with whitespace around it and nothing else
Loads(t) ==
    LET r == ParseValue(t, SkipWs(t, 1)) IN
    IF r.ok /\ SkipWs(t, r.e) > Len(t) THEN r ELSE Fail

\* decoder.raw_decode(t): one value at the start of t, whatever follows it
RawDecode(t) == ParseValue(t, 1)

----------------------------------------------------------------------------
(* TravelService._parse_itinerary_response                                  *)

\* the value None of a text argument
NoneText == <<"<None>">>

RECURSIVE LastNonWs(_, _)
LastNonWs(t, i) ==
    IF i >= 1 /\ t[i] \in WS THEN LastNonWs(t, i - 1) ELSE i

\* str.strip()
Strip(t) ==
    LET a == SkipWs(t, 1)
        b == LastNonWs(t, Len(t))
    IN IF a > b THEN <<>> ELSE SubSeq(t, a, b)

\* re.sub(r"^\s*```(?:json)?\s*", "", text, flags=re.IGNORECASE)
StripLeadingFence(t) ==
    LET a == SkipWs(t, 1) IN
    IF At(t, a) /= FenceTok THEN t
    ELSE
      LET b == IF At(t, a + 1) \in FenceTags THEN a + 2 ELSE a + 1
          c == SkipWs(t, b)
      IN SubSeq(t, c, Len(t))

\* re.sub(r"\s*```\s*$", "", text)
StripTrailingFence(t) ==
    LET b == LastNonWs(t, Len(t)) IN
    IF At(t, b) /= FenceTok THEN t
    ELSE SubSeq(t, 1, LastNonWs(t, b - 1))

StripCodeFences(t) ==
    IF t = <<>> THEN t
    ELSE Strip(StripTrailingFence(StripLeadingFence(t)))

\* the text of a token holds "{", holds "}": the brace tokens, and an activity token,
\* the text of a flat object, which opens with its only "{" and closes with its only "}"
HoldsOpen(tok) == tok = "{" \/ tok \in ActToks
HoldsClose(tok) == tok = "}" \/ tok \in ActToks

\* str.find("{", from): the first index >= from of a token that holds "{", 0 when
\* there is none
RECURSIVE FindBrace(_, _)
FindBrace(t, from) ==
    IF from > Len(t) THEN 0
    ELSE IF HoldsOpen(t[from]) THEN from
    ELSE FindBrace(t, from + 1)

\* str.rfind("}"): the last index of a token that holds "}", 0 when there is none
RECURSIVE RFindBrace(_, _)
RFindBrace(t, i) ==
    IF i < 1 THEN 0
    ELSE IF HoldsClose(t[i]) THEN i
    ELSE RFindBrace(t, i - 1)

\* last > first on the characters: the "}" of a later token, or that of the activity
\* token whose "{" is the first
BraceAfter(t, first, last) == last > first \/ (last = first /\ t[first] \in ActToks)

\* mutant: step 1 without the isinstance(obj, dict) test
TryLoadsAnyValue(raw) == Loads(raw)

\* step 1: the whole text, accepted when it is a dict
TryLoads(raw) ==
    LET r == Loads(raw) IN
    IF r.ok /\ IsDict(r.v) THEN r ELSE Fail

\* mutant: step 2 tries the first "{" only
ScanDecodeFirstOnly(raw, start) ==
    IF start = 0 THEN Fail
    ELSE LET r == RawDecode(SubSeq(raw, start, Len(raw))) IN
         IF r.ok /\ IsDict(r.v) THEN r ELSE Fail

\* step 2: raw_decode at every "{", the first dict wins
RECURSIVE ScanDecode(_, _)
ScanDecode(raw, start) ==
    IF start = 0 THEN Fail
    ELSE
      LET r == RawDecode(SubSeq(raw, start, Len(raw))) IN
      IF r.ok /\ IsDict(r.v) THEN r
      ELSE ScanDecode(raw, FindBrace(raw, start + 1))

\* step 3: the text between the first "{" and the last "}"
TryOuterBraces(raw) ==
    LET first == FindBrace(raw, 1)
        last == RFindBrace(raw, Len(raw))
    IN
    IF first /= 0 /\ last /= 0 /\ BraceAfter(raw, first, last)
    THEN LET r == Loads(SubSeq(raw, first, last)) IN
         IF r.ok /\ IsDict(r.v) THEN r ELSE Fail
    ELSE Fail

EmptySchedule ==
    Obj(<<Pair("morning", Arr(<<>>)), Pair("afternoon", Arr(<<>>)), Pair("evening", Arr(<<>>))>>)

\* the theme text of the default plan of day d
ThemeOf(d) == Str(Themes[d])

DefaultDay(d) ==
    Obj(<<Pair("theme", ThemeOf(d)), Pair("schedule", EmptySchedule), Pair("tips", Str(""))>>)

\* mutant: range(1, days)
DefaultRangeShort(days) == 1..(days - 1)

\* for day in range(1, days + 1)
DefaultRange(days) == 1..days

RECURSIVE DefaultMembers(_, _)
DefaultMembers(d, days) ==
    IF d \notin DefaultRange(days) THEN <<>>
    ELSE <<Pair(DayKey(d), DefaultDay(d))>> \o DefaultMembers(d + 1, days)

DefaultItinerary(days) == Obj(DefaultMembers(1, days))

ParseItineraryResponse(response_text, days) ==
    LET text == IF response_text = NoneText THEN <<>> ELSE response_text
        raw == StripCodeFences(Strip(text))
        r1 == TryLoads(raw)
        r2 == ScanDecode(raw, FindBrace(raw, 1))
        r3 == TryOuterBraces(raw)
    IN
    IF r1.ok THEN r1.v
    ELSE IF r2.ok THEN r2.v
    ELSE IF r3.ok THEN r3.v
    ELSE DefaultItinerary(days)

----------------------------------------------------------------------------
(* json.dumps of a value, without whitespace.                               *)

RECURSIVE Encode(_)
RECURSIVE EncodeMembers(_, _)

Encode(v) ==
    CASE v.t = "str" -> <<v.s>>
      [] v.t = "num" -> <<IF v.n = 0 THEN "0" ELSE "5">>
      [] v.t = "null" -> <<NullTok>>
      [] v.t = "arr" -> <<"[">> \o EncodeMembers(v.m, FALSE) \o <<"]">>
      [] OTHER -> <<"{">> \o EncodeMembers(v.m, TRUE) \o <<"}">>

EncodeMembers(m, keyed) ==
    IF m = <<>> THEN <<>>
    ELSE (IF keyed THEN <<Head(m).k, ":">> ELSE <<>>)
           \o Encode(Head(m).v)
           \o (IF Len(m) > 1 THEN <<",">> ELSE <<>>)
           \o EncodeMembers(Tail(m), keyed)

----------------------------------------------------------------------------
(* One day of the persist loop of generate_itinerary_stream: the day's      *)
(* plan, the derived spots and restaurants, and the items of the day event. *)
(* An item carries its uniqueId parts, timeOfDay, name, category and        *)
(* coordinates; its duration, notes and cost are computed from the activity *)
(* alone by total functions and are left out.                               *)

Segments == <<"morning", "afternoon", "evening">>
SegSet == {"morning", "afternoon", "evening"}

\* x or []
OrEmptyList(v) == IF Truthy(v) THEN v ELSE Arr(<<>>)

\* the plan used when day_N is not a dict
DefaultDayItinerary ==
    Obj(<<Pair("schedule", EmptySchedule), Pair("spots", Arr(<<>>)), Pair("restaurants", Arr(<<>>))>>)

\* mutant: the plan of the day is taken as the LLM gave it
DayItineraryRaw(data, d) == GetOr(data, DayKey(d), Obj(<<>>))

\* day_itinerary_raw = itinerary_data.get(f"day_{day_num}", {}), replaced when it is no dict
DayItinerary(data, d) ==
    LET raw == GetOr(data, DayKey(d), Obj(<<>>)) IN
    IF IsDict(raw) THEN raw ELSE DefaultDayItinerary

\* schedule_raw = day_itinerary.get("schedule"), {} when it is no dict
ScheduleOf(day_it) ==
    LET sr == Get(day_it, "schedule") IN
    IF IsDict(sr) THEN sr ELSE Obj(<<>>)

\* _norm_list
NormList(v) ==
    IF ~Truthy(v) THEN <<>>
    ELSE IF IsList(v) THEN Items(v)
    ELSE IF IsDict(v) /\ IsList(Get(v, "items")) THEN Items(Get(v, "items"))
    ELSE IF IsDict(v) THEN <<v>>
    ELSE <<>>

\* _as_list
AsList(v) ==
    IF ~Truthy(v) THEN <<>>
    ELSE IF IsList(v) THEN SelectSeq(Items(v), IsDict)
    ELSE IF IsDict(v) /\ IsList(Get(v, "items")) THEN SelectSeq(Items(Get(v, "items")), IsDict)
    ELSE IF IsDict(v) THEN <<v>>
    ELSE <<>>

\* mutant: the type of the activity is not looked at
PTypeByCuisine(p) ==
    IF Truthy(Get(p, "cuisine")) \/ Truthy(Get(p, "cuisine_type")) \/ Truthy(Get(p, "price_range"))
    THEN Str("restaurant")
    ELSE Str("spot")

\* p.get("type") or ("restaurant" if cuisine / cuisine_type / price_range else "spot")
PType(p) ==
    IF Truthy(Get(p, "type")) THEN Get(p, "type")
    ELSE IF Truthy(Get(p, "cuisine")) \/ Truthy(Get(p, "cuisine_type")) \/ Truthy(Get(p, "price_range"))
         THEN Str("restaurant")
         ELSE Str("spot")

IsRestaurantAct(p) == PType(p) = Str("restaurant")
IsSpotAct(p) == PType(p) /= Str("restaurant")

\* day_spots, day_restaurants and the plan after the derivation from the schedule
Derived(day_it) ==
    LET s0 == OrEmptyList(GetOr(day_it, "spots", Arr(<<>>)))
        r0 == OrEmptyList(GetOr(day_it, "restaurants", Arr(<<>>)))
        sch == ScheduleOf(day_it)
    IN
    IF ~Truthy(s0) /\ ~Truthy(r0) /\ Truthy(sch)
    THEN LET merged == NormList(Get(sch, "morning")) \o NormList(Get(sch, "afternoon"))
                         \o NormList(Get(sch, "evening"))
             dicts == SelectSeq(merged, IsDict)
             ss == Arr(SelectSeq(dicts, IsSpotAct))
             rs == Arr(SelectSeq(dicts, IsRestaurantAct))
         IN [spots |-> ss, restaurants |-> rs,
             it |-> Obj(ObjPut(ObjPut(day_it.m, "spots", ss), "restaurants", rs))]
    ELSE [spots |-> s0, restaurants |-> r0, it |-> day_it]

\* the characters of the strings of the model; "theme_d" stands for the five
\* characters of the theme text of a default plan, the second of them the digit of d
DayDigits == <<"1", "2", "3", "4", "5", "6", "7", "8", "9">>
ThemeChars(d) == <<"<di>", d, "<tian>", "<xing>", "<cheng>">>
Chars(s) ==
    CASE s = "k" -> <<"k">>
      [] s = "s" -> <<"s">>
      [] s = "A" -> <<"A">>
      [] s = "B" -> <<"B">>
      [] s = "R" -> <<"R">>
      [] s = "T" -> <<"T">>
      [] s = "theme" -> <<"t", "h", "e", "m", "e">>
      [] s = "schedule" -> <<"s", "c", "h", "e", "d", "u", "l", "e">>
      [] s = "morning" -> <<"m", "o", "r", "n", "i", "n", "g">>
      [] s = "afternoon" -> <<"a", "f", "t", "e", "r", "n", "o", "o", "n">>
      [] s = "evening" -> <<"e", "v", "e", "n", "i", "n", "g">>
      [] s = "tips" -> <<"t", "i", "p", "s">>
      [] s = "spots" -> <<"s", "p", "o", "t", "s">>
      [] s = "restaurants" -> <<"r", "e", "s", "t", "a", "u", "r", "a", "n", "t", "s">>
      [] s = "items" -> <<"i", "t", "e", "m", "s">>
      [] s = "name" -> <<"n", "a", "m", "e">>
      [] s = "location" -> <<"l", "o", "c", "a", "t", "i", "o", "n">>
      [] s = "type" -> <<"t", "y", "p", "e">>
      [] s = "latitude" -> <<"l", "a", "t", "i", "t", "u", "d", "e">>
      [] s = "longitude" -> <<"l", "o", "n", "g", "i", "t", "u", "d", "e">>
      [] s = "cuisine" -> <<"c", "u", "i", "s", "i", "n", "e">>
      [] s = "cuisine_type" -> <<"c", "u", "i", "s", "i", "n", "e", "_", "t", "y", "p", "e">>
      [] s = "price_range" -> <<"p", "r", "i", "c", "e", "_", "r", "a", "n", "g", "e">>
      [] s = "restaurant" -> <<"r", "e", "s", "t", "a", "u", "r", "a", "n", "t">>
      [] s = "spot" -> <<"s", "p", "o", "t">>
      [] s = "day_1" -> <<"d", "a", "y", "_", "1">>
      [] s = "day_2" -> <<"d", "a", "y", "_", "2">>
      [] s = "day_3" -> <<"d", "a", "y", "_", "3">>
      [] s = "day_4" -> <<"d", "a", "y", "_", "4">>
      [] s = "day_5" -> <<"d", "a", "y", "_", "5">>
      [] s = "day_6" -> <<"d", "a", "y", "_", "6">>
      [] s = "day_7" -> <<"d", "a", "y", "_", "7">>
      [] s = "day_8" -> <<"d", "a", "y", "_", "8">>
      [] s = "day_9" -> <<"d", "a", "y", "_", "9">>
      [] s = "a" -> <<"a">>
      [] s = "ab" -> <<"a", "b">>
      [] s = "r" -> <<"r">>
      [] s = "b" -> <<"b">>
      [] s = "c" -> <<"c">>
      [] s = "h" -> <<"h">>
      [] s = "h0" -> <<"h", "0">>
      [] s = "h1" -> <<"h", "1">>
      [] s = "h2" -> <<"h", "2">>
      [] s = "P" -> <<"P">>
      [] s = "Q" -> <<"Q">>
      [] s = "P1" -> <<"P", "1">>
      [] s = "P2" -> <<"P", "2">>
      [] s = "Q1" -> <<"Q", "1">>
      [] s = "Q2" -> <<"Q", "2">>
      [] s = "night spot" -> <<"n", "i", "g", "h", "t", " ", "s", "p", "o", "t">>
      [] s = "x" -> <<"x">>
      [] s = "" -> <<>>
      [] \E d \in 1..Len(Themes) : s = Themes[d] ->
            ThemeChars(DayDigits[CHOOSE d \in 1..Len(Themes) : s = Themes[d]])
      [] OTHER -> <<s>>

\* "".join(cs)
RECURSIVE Join(_)
Join(cs) == IF cs = <<>> THEN "" ELSE Head(cs) \o Join(Tail(cs))

\* v[:n] raises TypeError for a number or a dict
SliceRaises(v) == v.t \in {"num", "obj"}

\* v[:n]: the first n elements of a list, the first n characters of a string
Take(v, n) ==
    IF IsList(v)
    THEN [v EXCEPT !.m = SubSeq(v.m, 1, IF Len(v.m) < n THEN Len(v.m) ELSE n)]
    ELSE IF IsStr(v) /\ Len(Chars(v.s)) > n
    THEN Str(Join(SubSeq(Chars(v.s), 1, n)))
    ELSE v

\* the plan of day d before the upsert; the derivation writes into the dict held by itinerary_data
DayPrep(data, d) ==
    LET der == Derived(DayItinerary(data, d)) IN
    [ it |-> der.it, spots |-> der.spots, restaurants |-> der.restaurants,
      sliceRaises |-> SliceRaises(der.spots) \/ SliceRaises(der.restaurants),
      data |-> IF IsDict(GetOr(data, DayKey(d), Null))
               THEN Obj(ObjPut(data.m, DayKey(d), der.it))
               ELSE data ]

----------------------------------------------------------------------------
(* Names and coordinates.                                                   *)

\* str.lower on one character
LowerChar(c) ==
    CASE c = "A" -> "a"
      [] c = "B" -> "b"
      [] c = "R" -> "r"
      [] c = "T" -> "t"
      [] c = "P" -> "p"
      [] c = "Q" -> "q"
      [] OTHER -> c

Lower(cs) == [i \in 1..Len(cs) |-> LowerChar(cs[i])]

\* a in b, for strings
Contains(a, b) ==
    \E i \in 1..(Len(b) - Len(a) + 1) : SubSeq(b, i, i + Len(a) - 1) = a

\* act_name.lower() in rec_name.lower() or rec_name.lower() in act_name.lower()
NameMatch(act_name, rec_name) ==
    LET a == Lower(Chars(act_name))
        r == Lower(Chars(rec_name))
    IN Contains(a, r) \/ Contains(r, a)

\* _num: a number as it is, None for None and for a text that is no number
NumOf(v) == IF IsNum(v) THEN v ELSE Null

\* act.get("name") or act.get("location") or ""
ActName(act) ==
    IF Truthy(Get(act, "name")) THEN Get(act, "name")
    ELSE IF Truthy(Get(act, "location")) THEN Get(act, "location")
    ELSE Str("")

\* the generated names f"景点{idx + 1}" and f"餐厅{idx + 1}"
Placeholder(category, i) == [t |-> "str", s |-> category, n |-> i, m |-> <<>>]

\* what location_client.geocode returns: coordinates, or None
GeoCoord == Num(9)
GeoHit(geo) == geo = "hit"

NoMatch == [raised |-> FALSE, found |-> FALSE, lat |-> Null, lng |-> Null]

\* for rec_item in search_list: the first recommendation with a matching name and
\* coordinates; act_name.lower() raises for a name that is no string
RECURSIVE MatchRec(_, _, _)
MatchRec(name, recs, i) ==
    IF i > Len(recs) THEN NoMatch
    ELSE
      LET rn == GetOr(recs[i], "name", Str("")) IN
      IF ~Truthy(rn) THEN MatchRec(name, recs, i + 1)
      ELSE IF ~IsStr(name) THEN [NoMatch EXCEPT !.raised = TRUE]
      ELSE IF /\ NameMatch(name.s, rn.s)
              /\ Get(recs[i], "latitude") /= Null
              /\ Get(recs[i], "longitude") /= Null
           THEN [raised |-> FALSE, found |-> TRUE,
                 lat |-> NumOf(Get(recs[i], "latitude")), lng |-> NumOf(Get(recs[i], "longitude"))]
      ELSE MatchRec(name, recs, i + 1)

GeoCall(q, d) == [op |-> "geocode", day |-> d, arg |-> q]
UpsertCall(d) == [op |-> "upsert", day |-> d, arg |-> Null]

\* the coordinates after the search of the recommendations (m) and the geocoder.
\* needGeo: the search left a coordinate missing.
ResolveWith(name, lat0, lng0, m, geo, d) ==
    LET lat1 == IF m.found THEN m.lat ELSE lat0
        lng1 == IF m.found THEN m.lng ELSE lng0
        need == lat1 = Null \/ lng1 = Null
    IN
    [ raised |-> m.raised, searched |-> TRUE, needGeo |-> ~m.raised /\ need,
      lat |-> IF need /\ GeoHit(geo) THEN GeoCoord ELSE lat1,
      lng |-> IF need /\ GeoHit(geo) THEN GeoCoord ELSE lng1,
      calls |-> IF ~m.raised /\ need THEN <<GeoCall(name, d)>> ELSE <<>> ]

\* the coordinates of an activity: its own, else those of a matching recommendation,
\* else the geocoder's
Resolve(act, category, atts, rests, geo, d) ==
    IF (NumOf(Get(act, "latitude")) = Null \/ NumOf(Get(act, "longitude")) = Null)
       /\ Truthy(ActName(act))
    THEN ResolveWith(ActName(act), NumOf(Get(act, "latitude")), NumOf(Get(act, "longitude")),
                     MatchRec(ActName(act), IF category = "spot" THEN atts ELSE rests, 1),
                     geo, d)
    ELSE [ raised |-> FALSE, searched |-> FALSE, needGeo |-> FALSE,
           lat |-> NumOf(Get(act, "latitude")), lng |-> NumOf(Get(act, "longitude")),
           calls |-> <<>> ]

Item(category, d, seg, idx, fallback, name, lat, lng) ==
    [ kind |-> IF category = "food" THEN "rest" ELSE "spot",
      day |-> d, seg |-> seg, idx |-> idx, fallback |-> fallback,
      timeOfDay |-> seg, name |-> name, category |-> category,
      lat |-> lat, lng |-> lng ]

\* "美食" if ptype == "restaurant" else "景点"
CategoryOf(act) == IF IsRestaurantAct(act) THEN "food" ELSE "spot"

NoItems == [s \in SegSet |-> <<>>]

----------------------------------------------------------------------------
(* The items of the day event.                                              *)

\* the last activity the loops over the segments visited, and its index in its segment
LastVisited(sch) ==
    LET lists == [s \in 1..3 |-> AsList(Get(sch, Segments[s]))]
        last == CHOOSE s \in 1..3 :
                    lists[s] /= <<>> /\ \A u \in (s + 1)..3 : lists[u] = <<>>
    IN [act |-> lists[last][Len(lists[last])], idx |-> Len(lists[last]) - 1]

\* the one item of the has_schedule branch, r the coordinates found for act
ScheduleItem(act, idx, seg, category, r, d) ==
    [ raised |-> r.raised, calls |-> r.calls,
      items |-> IF r.needGeo
                THEN [NoItems EXCEPT ![seg] =
                        <<Item(category, d, seg, idx, FALSE, ActName(act), r.lat, r.lng)>>]
                ELSE NoItems ]

\* has_schedule branch.  The loops over the segments and their activities only set
\* ptype and category; the statements that build an item follow the loops, one level
\* out, and run once, with seg, idx and act as the loops left them, and the item is
\* built inside the branch that geocodes.
ScheduleItems(sch, d, atts, rests, geo) ==
    ScheduleItem(LastVisited(sch).act, LastVisited(sch).idx, Segments[3],
                 CategoryOf(LastVisited(sch).act),
                 Resolve(LastVisited(sch).act, CategoryOf(LastVisited(sch).act),
                         atts, rests, geo, d),
                 d)

\* iterating day_spots / day_restaurants: the elements of a list, the characters of a string
ElemsOf(v) ==
    IF IsList(v) THEN Items(v)
    ELSE [i \in 1..Len(Chars(v.s)) |-> Str(Chars(v.s)[i])]

TagAll(tag, vals) == [i \in 1..Len(vals) |-> [ptype |-> tag, act |-> vals[i]]]

\* one activity of the branch without schedule added to acc, r its coordinates
ListItem(acc, act, idx, seg, category, r, d) ==
    IF r.raised THEN [acc EXCEPT !.raised = TRUE]
    ELSE [ raised |-> FALSE, calls |-> acc.calls \o r.calls,
           items |-> [acc.items EXCEPT ![seg] =
                        Append(@, Item(category, d, seg, idx, FALSE,
                                       IF Truthy(ActName(act)) THEN ActName(act)
                                       ELSE Placeholder(category, idx + 1),
                                       r.lat, r.lng))] ]

\* "美食" if ptype == "restaurant" else "景点", for the tag of a merged element
TagCategory(ptype) == IF ptype = "restaurant" THEN "food" ELSE "spot"

\* branch without schedule: day_spots then day_restaurants, dealt round robin to the
\* segments; act.get raises for an element that is no dict
RECURSIVE ListItems(_, _, _, _, _, _, _)
ListItems(merged, i, acc, d, atts, rests, geo) ==
    IF i > Len(merged) \/ acc.raised THEN acc
    ELSE IF ~IsDict(merged[i].act) THEN [acc EXCEPT !.raised = TRUE]
    ELSE ListItems(merged, i + 1,
                   ListItem(acc, merged[i].act, i - 1, Segments[((i - 1) % 3) + 1],
                            TagCategory(merged[i].ptype),
                            Resolve(merged[i].act, TagCategory(merged[i].ptype),
                                    atts, rests, geo, d),
                            d),
                   d, atts, rests, geo)

\* list[a:b] of Python, a and b counted from 0
Slice(s, a, b) ==
    LET hi == IF b < Len(s) THEN b ELSE Len(s) IN
    IF a >= hi THEN <<>> ELSE SubSeq(s, a + 1, hi)

PerDaySpots == 2
PerDayRestaurants == 1

\* mutant: the slice of the day starts one day further on
SpotSliceNextDay(atts, d) ==
    Slice(atts, d * PerDaySpots, d * PerDaySpots + PerDaySpots)

\* mutant: the slice of the day starts one entry after that of the day before
SpotSliceByOne(atts, d) == Slice(atts, d - 1, d - 1 + PerDaySpots)

\* atts[spot_start: spot_start + per_day_spots]
SpotSlice(atts, d) ==
    Slice(atts, (d - 1) * PerDaySpots, (d - 1) * PerDaySpots + PerDaySpots)

\* rests[rest_start: rest_start + per_day_restaurants]
RestSlice(rests, d) ==
    Slice(rests, (d - 1) * PerDayRestaurants, (d - 1) * PerDayRestaurants + PerDayRestaurants)

\* one synthesized item and the geocoder call made for it
FallbackItem(rec, category, d, seg, idx, name, geo) ==
    LET lat0 == NumOf(Get(rec, "latitude"))
        lng0 == NumOf(Get(rec, "longitude"))
        ask == (lat0 = Null \/ lng0 = Null) /\ Truthy(Get(rec, "name"))
    IN
    [ item |-> Item(category, d, seg, idx, TRUE, name,
                    IF ask /\ GeoHit(geo) THEN GeoCoord ELSE lat0,
                    IF ask /\ GeoHit(geo) THEN GeoCoord ELSE lng0),
      calls |-> IF ask THEN <<GeoCall(Get(rec, "name"), d)>> ELSE <<>> ]

FirstTruthy(a, b, c) == IF Truthy(a) THEN a ELSE IF Truthy(b) THEN b ELSE c

\* the items and calls of the synthesized day; m, a and e hold at most one entry each
FallbackOf(m, a, e) ==
    [ items |-> [s \in SegSet |->
                    IF s = "morning" THEN [i \in 1..Len(m) |-> m[i].item]
                    ELSE IF s = "afternoon" THEN [i \in 1..Len(a) |-> a[i].item]
                    ELSE [i \in 1..Len(e) |-> e[i].item]],
      calls |-> (IF m = <<>> THEN <<>> ELSE m[1].calls)
                  \o (IF a = <<>> THEN <<>> ELSE a[1].calls)
                  \o (IF e = <<>> THEN <<>> ELSE e[1].calls) ]

\* the day synthesized from the slices of the recommendation lists
FallbackFrom(ss, rs, d, geo) ==
    FallbackOf(
        IF Len(ss) >= 1
        THEN <<FallbackItem(ss[1], "spot", d, "morning", 0,
                  FirstTruthy(Get(ss[1], "name"), Get(ss[1], "location"), Str("spot")), geo)>>
        ELSE <<>>,
        IF Len(rs) >= 1
        THEN <<FallbackItem(rs[1], "food", d, "afternoon", 0,
                  FirstTruthy(Get(rs[1], "name"), Null, Str("restaurant")), geo)>>
        ELSE <<>>,
        IF Len(ss) >= 2
        THEN <<FallbackItem(ss[2], "spot", d, "evening", 1,
                  FirstTruthy(Get(ss[2], "name"), Null, Str("night spot")), geo)>>
        ELSE <<>>)

Fallback(d, atts, rests, geo) == FallbackFrom(SpotSlice(atts, d), RestSlice(rests, d), d, geo)

AllEmpty(items) == \A s \in SegSet : items[s] = <<>>

\* the items of the primary branch
Primary(sch, prep, d, atts, rests, geo) ==
    IF \E s \in SegSet : AsList(Get(sch, s)) /= <<>>
    THEN ScheduleItems(sch, d, atts, rests, geo)
    ELSE ListItems(TagAll("spot", ElemsOf(prep.spots))
                     \o TagAll("restaurant", ElemsOf(prep.restaurants)),
                   1, [raised |-> FALSE, calls |-> <<>>, items |-> NoItems],
                   d, atts, rests, geo)

\* if not any(grouped_items[seg] ...) and (spot_slice or rest_slice): the fallback
AssembleWith(prim, fb, slices) ==
    IF prim.raised THEN [raised |-> TRUE, calls |-> prim.calls, items |-> NoItems]
    ELSE IF AllEmpty(prim.items) /\ slices
         THEN [raised |-> FALSE, calls |-> prim.calls \o fb.calls, items |-> fb.items]
    ELSE [raised |-> FALSE, calls |-> prim.calls, items |-> prim.items]

\* grouped_items of day d, the geocoder calls made for them, and whether an exception came
Assemble(prep, d, atts, rests, geo) ==
    AssembleWith(Primary(ScheduleOf(prep.it), prep, d, atts, rests, geo),
                 Fallback(d, atts, rests, geo),
                 SpotSlice(atts, d) /= <<>> \/ RestSlice(rests, d) /= <<>>)

\* _ensure_lat_lng: a recommendation without coordinates takes the geocoder's
RECURSIVE EnsureLatLng(_, _)
EnsureLatLng(recs, geo) ==
    IF recs = <<>> THEN [recs |-> <<>>, calls |-> <<>>]
    ELSE
      LET item == Head(recs)
          rest == EnsureLatLng(Tail(recs), geo)
          ask == IsDict(item)
                 /\ (Get(item, "latitude") = Null \/ Get(item, "longitude") = Null)
                 /\ Truthy(Get(item, "name"))
          item2 == IF ask /\ GeoHit(geo)
                   THEN Obj(ObjPut(ObjPut(item.m, "latitude", GeoCoord), "longitude", GeoCoord))
                   ELSE item
      IN [ recs |-> <<item2>> \o rest.recs,
           calls |-> (IF ask THEN <<GeoCall(Get(item, "name"), 0)>> ELSE <<>>) \o rest.calls ]

----------------------------------------------------------------------------
(* Flights, accommodations and the start and end point of a day.            *)
(* A date is Num(k), the k-th day counted from the day before the trip; a    *)
(* date with a time of day (a datetime, or its ISO text) is a dict holding   *)
(* "date" and "time".  A coordinate is a number or null.                     *)

DateTime(k, h) == Obj(<<Pair("date", Num(k)), Pair("time", Num(h))>>)

\* _to_date: the date of a date or datetime, None for anything else
ToDate(v) ==
    IF IsNum(v) THEN v
    ELSE IF IsDict(v) /\ IsNum(Get(v, "date")) THEN Get(v, "date")
    ELSE Null

\* current_date = start_date + timedelta(days=day_num - 1)
CurrentDate(d) == Num(d)

\* a or b
Or2(a, b) == IF Truthy(a) THEN a ELSE b

\* the dict of a start or end point, and None
Point(lat, lng, name, type) ==
    [type |-> type, lat |-> lat.n, lng |-> lng.n, name |-> name]
NoPoint == [type |-> "none", lat |-> 0, lng |-> 0, name |-> Null]
NoPoints == [start |-> NoPoint, end |-> NoPoint]

\* _geocode_accommodation: stored coordinates other than (0, 0) are kept, otherwise
\* the address is geocoded when the record has a city and an address
GeocodeAccommodation(acc, geo) ==
    LET lat == Get(acc, "latitude")
        lng == Get(acc, "longitude")
        ask == Truthy(GetOr(acc, "city", Str(""))) /\ Truthy(GetOr(acc, "address", Str("")))
    IN
    IF lat /= Null /\ lng /= Null /\ (lat.n /= 0 \/ lng.n /= 0)
    THEN [rec |-> acc, calls |-> <<>>]
    ELSE [rec |-> IF ask /\ GeoHit(geo)
                  THEN Obj(ObjPut(ObjPut(acc.m, "latitude", GeoCoord), "longitude", GeoCoord))
                  ELSE acc,
          calls |-> IF ask THEN <<GeoCall(Get(acc, "address"), 0)>> ELSE <<>>]

\* one airport of _geocode_flight: geocoded unless both coordinates are truthy
GeocodeAirport(flight, airport, latKey, lngKey, geo) ==
    LET ask == ~(Truthy(Get(flight, latKey)) /\ Truthy(Get(flight, lngKey))) IN
    [rec |-> IF ask /\ GeoHit(geo)
             THEN Obj(ObjPut(ObjPut(flight.m, latKey, GeoCoord), lngKey, GeoCoord))
             ELSE flight,
     calls |-> IF ask THEN <<GeoCall(airport, 0)>> ELSE <<>>]

\* the last step of _geocode_flight: the legacy columns latitude/longitude stand in
\* for the departure airport
LegacyCoords(flight) ==
    IF ~Truthy(Get(flight, "departure_latitude")) /\ Truthy(Get(flight, "latitude"))
    THEN Obj(ObjPut(ObjPut(flight.m, "departure_latitude", Get(flight, "latitude")),
                    "departure_longitude", Get(flight, "longitude")))
    ELSE flight

\* _geocode_flight
GeocodeFlightWith(dep, arrOf) ==
    [rec |-> LegacyCoords(arrOf.rec), calls |-> dep.calls \o arrOf.calls]

GeocodeArrival(flight, orig, geo) ==
    LET arr == GetOr(orig, "arrival_airport", Str("")) IN
    IF Truthy(arr) /\ arr /= GetOr(orig, "departure_airport", Str(""))
    THEN GeocodeAirport(flight, arr, "arrival_latitude", "arrival_longitude", geo)
    ELSE [rec |-> flight, calls |-> <<>>]

GeocodeDeparture(flight, geo) ==
    LET dep == GetOr(flight, "departure_airport", Str("")) IN
    IF Truthy(dep)
    THEN GeocodeAirport(flight, dep, "departure_latitude", "departure_longitude", geo)
    ELSE [rec |-> flight, calls |-> <<>>]

GeocodeFlight(flight, geo) ==
    GeocodeFlightWith(GeocodeDeparture(flight, geo),
                      GeocodeArrival(GeocodeDeparture(flight, geo).rec, flight, geo))

\* [_geocode_accommodation(acc) for acc in accommodations] and the same for flights
RECURSIVE GeocodeAll(_, _, _)
GeocodeAll(recs, isFlight, geo) ==
    IF recs = <<>> THEN [recs |-> <<>>, calls |-> <<>>]
    ELSE
      LET one == IF isFlight THEN GeocodeFlight(Head(recs), geo)
                 ELSE GeocodeAccommodation(Head(recs), geo)
          rest == GeocodeAll(Tail(recs), isFlight, geo)
      IN [recs |-> <<one.rec>> \o rest.recs, calls |-> one.calls \o rest.calls]

\* one accommodation of the loop at 437-480
AccStep(acc, cur, pts) ==
    LET check_in == ToDate(Get(acc, "check_in_date"))
        check_out == ToDate(Get(acc, "check_out_date"))
        acc_point == Point(Get(acc, "latitude"), Get(acc, "longitude"),
                           GetOr(acc, "address", Str("")), "accommodation")
    IN
    IF check_in = Null THEN pts
    ELSE IF ~(Truthy(Get(acc, "latitude")) /\ Truthy(Get(acc, "longitude"))) THEN pts
    ELSE IF check_in = cur
      THEN [start |-> acc_point, end |-> IF check_out = cur THEN acc_point ELSE pts.end]
    ELSE IF check_out /= Null /\ check_out = cur
      THEN [start |-> IF pts.start = NoPoint THEN acc_point ELSE pts.start, end |-> acc_point]
    ELSE IF check_out /= Null /\ check_in.n < cur.n /\ cur.n < check_out.n
      THEN [start |-> IF pts.start = NoPoint THEN acc_point ELSE pts.start, end |-> acc_point]
    ELSE pts

\* for acc in accommodations
RECURSIVE AccLoop(_, _, _)
AccLoop(accs, cur, pts) ==
    IF accs = <<>> THEN pts
    ELSE AccLoop(Tail(accs), cur, AccStep(Head(accs), cur, pts))

\* _to_date(flight.get("arrival_time")) or _to_date(flight.get("return_time"))
ArrivalDate(flight) ==
    IF ToDate(Get(flight, "arrival_time")) /= Null
    THEN ToDate(Get(flight, "arrival_time"))
    ELSE ToDate(Get(flight, "return_time"))

\* the coordinates of an airport of a flight, and whether both are truthy
AirLat(flight, side) == Or2(Get(flight, side \o "_latitude"), Get(flight, "latitude"))
AirLng(flight, side) == Or2(Get(flight, side \o "_longitude"), Get(flight, "longitude"))
HasAirport(flight, side) == Truthy(AirLat(flight, side)) /\ Truthy(AirLng(flight, side))
AirportPoint(flight, side) ==
    Point(AirLat(flight, side), AirLng(flight, side),
          GetOr(flight, side \o "_airport", Str("")), "airport")

\* one flight of the loop at 484-523: an arrival on the day gives the start point when
\* none is set, a departure on the day gives the end point
FlightStep(flight, cur, pts) ==
    LET arrives == /\ ArrivalDate(flight) = cur
                   /\ HasAirport(flight, "arrival")
                   /\ Truthy(GetOr(flight, "arrival_airport", Str("")))
                   /\ pts.start = NoPoint
        departs == /\ ToDate(Get(flight, "departure_time")) = cur
                   /\ HasAirport(flight, "departure")
                   /\ Truthy(GetOr(flight, "departure_airport", Str("")))
    IN
    [start |-> IF arrives THEN AirportPoint(flight, "arrival") ELSE pts.start,
     end |-> IF departs THEN AirportPoint(flight, "departure") ELSE pts.end]

\* for flight in flights
RECURSIVE FlightLoop(_, _, _)
FlightLoop(fls, cur, pts) ==
    IF fls = <<>> THEN pts
    ELSE FlightLoop(Tail(fls), cur, FlightStep(Head(fls), cur, pts))

\* lines 525-543: the departure airport of the first flight of the list that has a
\* departure date and coordinates
RECURSIVE FirstDeparture(_)
FirstDeparture(fls) ==
    IF fls = <<>> THEN NoPoint
    ELSE IF /\ ToDate(Get(Head(fls), "departure_time")) /= Null
            /\ HasAirport(Head(fls), "departure")
      THEN AirportPoint(Head(fls), "departure")
    ELSE FirstDeparture(Tail(fls))

\* _to_date(last_arrival_flight.get("arrival_time") or last_arrival_flight.get("return_time")),
\* the date line 554 compares with: the "or" is taken before the conversion
LastDate(flight) == ToDate(Or2(Get(flight, "arrival_time"), Get(flight, "return_time")))

\* arrival_time > None raises TypeError: what the search and the points hold then
CompareRaised == [t |-> "raise", s |-> "TypeError", n |-> 0, m |-> <<>>]
RaisedPoint == [type |-> "raise", lat |-> 0, lng |-> 0, name |-> Null]

\* lines 548-555: the flight with the latest arrival date, the first of them on a tie;
\* best is the flight found so far, Null for none.  The comparison raises when the
\* flight found so far has no date by line 554
RECURSIVE LastArrivalFlight(_, _)
LastArrivalFlight(fls, best) ==
    IF fls = <<>> THEN best
    ELSE IF ArrivalDate(Head(fls)) = Null THEN LastArrivalFlight(Tail(fls), best)
    ELSE IF best = Null THEN LastArrivalFlight(Tail(fls), Head(fls))
    ELSE IF LastDate(best) = Null THEN CompareRaised
    ELSE IF ArrivalDate(Head(fls)).n > LastDate(best).n
      THEN LastArrivalFlight(Tail(fls), Head(fls))
    ELSE LastArrivalFlight(Tail(fls), best)

\* lines 557-568: its arrival airport, when it has coordinates
LastArrival(best) ==
    IF best = CompareRaised THEN RaisedPoint
    ELSE IF best /= Null /\ HasAirport(best, "arrival")
    THEN AirportPoint(best, "arrival")
    ELSE NoPoint

\* the two special cases of the first and the last day, on the points of the loops
EdgeDays(pts, fls, days, d) ==
    [start |-> IF pts.start = NoPoint /\ d = 1 THEN FirstDeparture(fls) ELSE pts.start,
     end |-> IF pts.end = NoPoint /\ d = days
             THEN LastArrival(LastArrivalFlight(fls, Null))
             ELSE pts.end]

\* _get_day_start_end_points(day_num, current_date); the end point is RaisedPoint when
\* the call raises
DayPoints(accs, fls, days, d) ==
    EdgeDays(FlightLoop(fls, CurrentDate(d), AccLoop(accs, CurrentDate(d), NoPoints)),
             fls, days, d)

\* the call raised
PointsRaise(pts) == pts.end = RaisedPoint

\* the anchor run does not take part
AnchorIdle ==
    /\ a_in = [accs |-> <<>>, flights |-> <<>>, days |-> 1, d |-> 1, geo |-> "miss"]
    /\ a_pc = "idle"
    /\ a_out = NoPoints

----------------------------------------------------------------------------
(* generate_itinerary_stream: what it yields.                               *)

Ev(name, stage, day, delta, items, details) ==
    [name |-> name, stage |-> stage, day |-> day, delta |-> delta,
     items |-> items, details |-> details, points |-> NoPoints]

\* yield ":\n\n", a comment line and no event
CommentLine == Ev(":", "", 0, <<>>, NoItems, <<>>)
StartedEv == Ev("started", "", 0, <<>>, NoItems, <<>>)
HeartbeatEv == Ev("heartbeat", "", 0, <<>>, NoItems, <<>>)
Progress(stage) == Ev("progress", stage, 0, <<>>, NoItems, <<>>)
Token(delta) == Ev("token", "", 0, delta, NoItems, <<>>)
DayEv(d, items, pts) == [Ev("day", "", d, <<>>, items, <<>>) EXCEPT !.points = pts]
ResultEv(days, details) == Ev("result", "", days, <<>>, NoItems, details)
ErrorEv == Ev("error", "", 0, <<>>, NoItems, <<>>)

\* the named events of the stream
IsEvent(e) == e.name /= ":"
Events == SelectSeq(out, IsEvent)

----------------------------------------------------------------------------
(* The environment of a run.                                                *)

MaxNotes == 1    \* most reference-note URLs of a request

\* the plans the LLM may return
Plans ==
    LET A == ActValue("ActA")
        B == ActValue("ActB")
        R == ActValue("ActR")
        T == ActValue("ActT")
        N == ActValue("ActN")
        X == ActValue("ActX")
        DayOf(sched) == Obj(<<Pair("schedule", sched)>>)
    IN
    { \* a plan in the requested shape
      Obj(<<Pair("day_1", Obj(<<Pair("theme", Str("s")),
                                Pair("schedule", Obj(<<Pair("morning", Arr(<<A, B>>)),
                                                       Pair("afternoon", Arr(<<R>>)),
                                                       Pair("evening", Arr(<<T>>))>>))>>)),
            Pair("day_2", DayOf(Obj(<<Pair("morning", Arr(<<B>>))>>)))>>),
      \* a segment that is a single dict, a segment that wraps its list in "items"
      Obj(<<Pair("day_1", DayOf(Obj(<<Pair("morning", B),
                                      Pair("afternoon", Obj(<<Pair("items", Arr(<<R, N>>))>>))>>)))>>),
      \* a segment that is a number
      Obj(<<Pair("day_1", DayOf(Obj(<<Pair("morning", Num(5))>>)))>>),
      \* a day that is a string, a day whose last activity has coordinates
      Obj(<<Pair("day_1", Str("s")),
            Pair("day_2", DayOf(Obj(<<Pair("evening", Arr(<<B, A>>))>>)))>>),
      \* spots and restaurants and no schedule
      Obj(<<Pair("day_1", Obj(<<Pair("spots", Arr(<<A, B>>)), Pair("restaurants", Arr(<<R>>))>>))>>),
      \* spots that is a list of strings
      Obj(<<Pair("day_1", Obj(<<Pair("spots", Arr(<<Str("s")>>))>>))>>),
      \* spots that is a number, a schedule that is null
      Obj(<<Pair("day_1", Obj(<<Pair("spots", Num(5)), Pair("schedule", Null)>>))>>),
      \* an activity whose name is a number
      Obj(<<Pair("day_1", DayOf(Obj(<<Pair("morning", Arr(<<X>>))>>)))>>),
      \* a second day whose spots are strings
      Obj(<<Pair("day_1", Obj(<<Pair("spots", Arr(<<B>>))>>)),
            Pair("day_2", Obj(<<Pair("spots", Arr(<<Str("s")>>))>>))>>),
      \* activities whose type or cuisine is there and empty or null, activities with
      \* a cuisine_type and a price_range
      Obj(<<Pair("day_1", DayOf(Obj(<<
          Pair("morning", Arr(<<Obj(<<Pair("type", Str("")), Pair("cuisine", Str("k"))>>),
                                Obj(<<Pair("name", Str("B")), Pair("cuisine", Str(""))>>)>>)),
          Pair("afternoon", Arr(<<Obj(<<Pair("name", Str("B")), Pair("price_range", Str("k"))>>),
                                  Obj(<<Pair("name", Str("B")), Pair("cuisine_type", Str("k"))>>)>>)),
          Pair("evening", Arr(<<Obj(<<Pair("type", Null), Pair("cuisine", Str("k"))>>)>>))>>)))>>),
      \* restaurants that is a string
      Obj(<<Pair("day_1", Obj(<<Pair("spots", Arr(<<B>>)), Pair("restaurants", Str("theme"))>>))>>) }

\* the plan in the requested shape
PlanGood == CHOOSE o \in Plans : Get(Get(o, "day_1"), "theme") = Str("s")

\* a text cut before its last token
Truncated(t) == SubSeq(t, 1, Len(t) - 1)

\* what the LLM may answer: the plans as JSON, a plan in a code fence, a truncated
\* plan, prose, nothing
LLMTexts ==
    {Encode(o) : o \in Plans}
      \cup { <<FenceTok, "json", " ">> \o Encode(PlanGood) \o <<" ", FenceTok>>,
             Truncated(Encode(PlanGood)), <<"x">>, <<>> }

\* how llm.stream may cut a text into chunks; a chunk may be empty or have no content
Chunkings(t) ==
    LET h == Len(t) \div 2 IN
    { <<t>>, <<<<>>, SubSeq(t, 1, h), NoneText, SubSeq(t, h + 1, Len(t))>> }

\* what search_attractions and search_restaurants may return
Rec(name) == Obj(<<Pair("name", Str(name)), Pair("latitude", Num(5)), Pair("longitude", Num(5))>>)
AttractionLists == { <<>>, <<Rec("A")>>, <<Rec("A"), Obj(<<Pair("name", Str("ab"))>>), Rec("T")>> }
RestaurantLists == { <<>>, <<Rec("r")>> }

\* the rows of the flights and accommodations tables of the plan: none; a stay from
\* day 1 to day 2; a stay without coordinates and a flight that leaves on day 2
Trips ==
    { [flights |-> <<>>, accommodations |-> <<>>],
      [flights |-> <<>>,
       accommodations |-> << Obj(<<Pair("city", Str("c")), Pair("address", Str("h")),
                                   Pair("check_in_date", Num(1)), Pair("check_out_date", Num(2)),
                                   Pair("latitude", Num(5)), Pair("longitude", Num(5))>>) >>],
      [flights |-> << Obj(<<Pair("departure_airport", Str("P")), Pair("arrival_airport", Str("Q")),
                            Pair("departure_time", DateTime(2, 8)), Pair("return_time", Null),
                            Pair("latitude", Num(5)), Pair("longitude", Num(5))>>) >>,
       accommodations |-> << Obj(<<Pair("city", Str("c")), Pair("address", Str("h")),
                                   Pair("check_in_date", Num(1)), Pair("check_out_date", Num(2)),
                                   Pair("latitude", Null), Pair("longitude", Null)>>) >>] }

\* what the searches and the two tables return in a run: every pair of recommendation
\* lists for a plan without flights and accommodations, one pair for the other plans
Fetched ==
    { [attractions |-> a, restaurants |-> r, flights |-> <<>>, accommodations |-> <<>>] :
        a \in AttractionLists, r \in RestaurantLists }
    \cup { [attractions |-> <<Rec("A")>>, restaurants |-> <<>>, flights |-> t.flights,
            accommodations |-> t.accommodations] : t \in Trips }

\* a run with an earlier or a concurrent run finds one attraction and has no flights
\* and accommodations
FetchedIn(world) ==
    IF world = "alone" THEN Fetched
    ELSE { [attractions |-> <<Rec("A")>>, restaurants |-> <<>>, flights |-> <<>>,
            accommodations |-> <<>>] }

\* create_itinerary_detail: the row is written ("ok"); no connection or a failed
\* statement and None is returned ("none"); an exception leaves the call ("raise")
PersistOutcomes == {"ok", "none", "raise"}

\* create_all_tables has dropped the table and not created it again
TableMissing(o) == o.kind = "setup" /\ o.pc \in {"dropped", "nocreate"}

\* without the table cursor.execute raises, the except clause of
\* create_itinerary_detail rolls back and None is returned
WriteOutcomes(missing) == IF missing THEN PersistOutcomes \ {"ok"} ELSE PersistOutcomes

\* mutant: the exception of the upsert is swallowed
PersistRaisesNever(oc) == FALSE

\* the call of create_itinerary_detail is not guarded: its exception leaves the loop
PersistRaises(oc) == oc = "raise"

\* mutant: range(1, days)
DayRangeShort(days) == 1..(days - 1)

\* for day_num in range(1, days + 1)
DayRange(days) == 1..days

\* mutant: the handler yields the error and the persist loop goes on
ExceptPcResume == "persist"

\* except Exception as e: yield sse("error", ...), the last statement of the generator
ExceptPc == "error"

----------------------------------------------------------------------------
(* The itinerary_details table.                                             *)

SqlNull == <<"NULL">>
NoRow == [itinerary |-> <<>>, spots |-> <<>>, restaurants |-> <<>>]

\* json.dumps(x, ensure_ascii=False) if x else None
Column(v) == IF Truthy(v) THEN Encode(v) ELSE SqlNull

\* the three JSON columns the statement writes for the day
Row(prep) ==
    [ itinerary |-> Column(prep.it),
      spots |-> Column(Take(prep.spots, 5)),
      restaurants |-> Column(Take(prep.restaurants, 3)) ]

\* the entry appended to itinerary_details
Detail(prep, d) ==
    [ day_number |-> d, itinerary |-> prep.it,
      spots |-> Take(prep.spots, 5), restaurants |-> Take(prep.restaurants, 3) ]

\* x[:n] raises TypeError unless x is a list or a str
NoSlice(v) == ~(IsList(v) \/ IsStr(v))

\* generate_itinerary: day_itinerary = itinerary_data.get(f"day_{day_num}", {}),
\* day_spots = day_itinerary.get("spots", []), day_restaurants likewise, and their
\* slices; raises when the day is no dict (it has no get) or a slice raises
TaskPrep(data, d) ==
    LET it == GetOr(data, DayKey(d), Obj(<<>>))
        sp == IF IsDict(it) THEN GetOr(it, "spots", Arr(<<>>)) ELSE Null
        rs == IF IsDict(it) THEN GetOr(it, "restaurants", Arr(<<>>)) ELSE Null
    IN [ raises |-> ~IsDict(it) \/ NoSlice(sp) \/ NoSlice(rs),
         it |-> it, spots |-> Take(sp, 5), restaurants |-> Take(rs, 3) ]

\* the three JSON columns generate_itinerary writes for the day
TaskRow(prep) ==
    [ itinerary |-> Column(prep.it),
      spots |-> Column(prep.spots),
      restaurants |-> Column(prep.restaurants) ]

\* the travel_plan_id of the run, and that of another plan
PlanId == 1
OtherPlanId == 2

\* a row of the table: the columns of the key and the three JSON columns
TableRow(plan, d, row) == [plan |-> plan, day |-> d, row |-> row]

\* the rows of a key in the order of the table
RowsOf(table, plan, d) ==
    LET HasKeyOf(r) == r.plan = plan /\ r.day = d IN SelectSeq(table, HasKeyOf)

\* the JSON columns of the row of a key, NoRow when the table has no such row
RowOf(table, plan, d) ==
    IF RowsOf(table, plan, d) = <<>> THEN NoRow ELSE RowsOf(table, plan, d)[1].row

\* mutant: the unique key is day_number alone
UpsertByDay(table, key, plan, d, row) ==
    IF key /\ \E i \in 1..Len(table) : table[i].day = d
    THEN [i \in 1..Len(table) |->
            IF table[i].day = d THEN [table[i] EXCEPT !.row = row] ELSE table[i]]
    ELSE Append(table, TableRow(plan, d, row))

\* INSERT ... ON DUPLICATE KEY UPDATE and commit.  On the table of create_all_tables
\* (travel_models.py), which has UNIQUE KEY uk_plan_day (travel_plan_id, day_number),
\* the row of the key takes the new columns and a new key gets a new row (key); on the
\* table of create_tables.py, which has no such key, the statement inserts a row
\* every time
Upsert(table, key, plan, d, row) ==
    IF key /\ \E i \in 1..Len(table) : table[i].plan = plan /\ table[i].day = d
    THEN [i \in 1..Len(table) |->
            IF table[i].plan = plan /\ table[i].day = d
            THEN [table[i] EXCEPT !.row = row]
            ELSE table[i]]
    ELSE Append(table, TableRow(plan, d, row))

\* len(x) raises TypeError for a number and for None
LenRaises(v) == v.t \in {"num", "null"}

\* the logging of the parsed plan: len(schedule.get(seg, [])) for the three segments
\* of every value that is a dict
LogRaises(data) ==
    \E i \in 1..Len(data.m) :
        /\ IsDict(data.m[i].v)
        /\ LET s0 == GetOr(data.m[i].v, "schedule", Obj(<<>>))
               schedule == IF IsDict(s0) THEN s0 ELSE Obj(<<>>)
           IN \E seg \in SegSet : LenRaises(GetOr(schedule, seg, Arr(<<>>)))

----------------------------------------------------------------------------
(* generate_itinerary_stream: one action for every resumption of the        *)
(* generator, from one yield to the next; a day of the persist loop takes  *)
(* two, the first up to the commit of the row, which other requests see,   *)
(* the second from there to the yield of the day event.  The flights and   *)
(* accommodations of the plan are read in the fetch step and give each day *)
(* event its start and end point.                                           *)

\* the parser run does not take part
ParseIdle ==
    /\ p_in = [kind |-> "none", text |-> <<>>, days |-> 0, obj |-> Null, pre |-> <<>>, post |-> <<>>]
    /\ p_pc = "idle"
    /\ p_result = Null

\* the days of an earlier run of the plan, and the rows it left: the LLM had answered
\* with prose and every day got the default plan
StoreDays == 1..MaxDays
PriorRows ==
    [d \in StoreDays |-> TableRow(PlanId, d, Row(DayPrep(DefaultItinerary(MaxDays), d)))]

OtherDays == 1   \* the day count of the second run

\* what create_itinerary_detail does in the second run: the row is written, None is
\* returned, or the call raises (connection.cursor() raises and the finally clause
\* finds cursor unbound)
OtherOutcomes == {"ok", "none", "raise"}

\* a plan with the lists spots and restaurants, and a plan whose first day is no dict
PlanLists == CHOOSE o \in Plans : Get(Get(o, "day_1"), "restaurants") = Arr(<<ActValue("ActR")>>)
PlanNoDict == CHOOSE o \in Plans : Get(o, "day_1") = Str("s")

\* what the LLM answered to generate_itinerary
TaskPlans == {PlanGood, PlanLists, PlanNoDict}

\* a second request on the same table, seen through the table, the only state it
\* shares with the first: what it runs (kind), its plan, the plan its LLM answered
\* with, its day count, its position, the last day its persist loop completed and
\* what its calls of create_itinerary_detail did.
\* kind "stream" is a run of generate_itinerary_stream: "persist" and "day" at the
\* yields, "in_day" after the commit of a day, "error" after the error event; out
\* holds the day events it yielded.
OtherRun(plan) ==
    [kind |-> "stream", plan |-> plan, data |-> PlanGood, days |-> OtherDays, pc |-> "persist",
     day_num |-> 0, outcomes |-> <<>>, out |-> <<>>]
\* kind "task" is a run of generate_itinerary (POST /plans/{id}/generate-itinerary):
\* "persist" in its loop, "done" when it returned success, "failed" when its except
\* clause returned the failure
TaskRun(plan, data) ==
    [kind |-> "task", plan |-> plan, data |-> data, days |-> OtherDays, pc |-> "persist",
     day_num |-> 0, outcomes |-> <<>>, out |-> <<>>]
\* kind "setup" is a run of create_all_tables (init_db.py, create_tables.py):
\* "persist" before DROP TABLE itinerary_details, "dropped" after it, "done" and
\* "failed" when it returned True and False with the table there, "nocreate" when it
\* returned False with the table gone
SetupRun ==
    [kind |-> "setup", plan |-> OtherPlanId, data |-> Null, days |-> 0, pc |-> "persist",
     day_num |-> 0, outcomes |-> <<>>, out |-> <<>>]
NoOther ==
    [kind |-> "none", plan |-> OtherPlanId, data |-> Null, days |-> 0, pc |-> "persist",
     day_num |-> 0, outcomes |-> <<>>, out |-> <<>>]

\* the table and the other request at the start of a run: an empty table ("alone"),
\* the rows of an earlier run of the plan ("rerun"), a concurrent stream of the same
\* plan ("same") or of another plan ("other"), a concurrent generate_itinerary of the
\* same plan ("task") or of another plan ("task_other"), a concurrent
\* create_all_tables ("setup")
Worlds == {"alone", "rerun", "same", "other", "task", "task_other", "setup"}
RowsAtStart(world) == IF world = "rerun" THEN PriorRows ELSE <<>>
OthersAtStart(world) ==
    CASE world = "same" -> {OtherRun(PlanId)}
      [] world = "other" -> {OtherRun(OtherPlanId)}
      [] world = "task" -> {TaskRun(PlanId, data) : data \in TaskPlans}
      [] world = "task_other" -> {TaskRun(OtherPlanId, PlanLists)}
      [] world = "setup" -> {SetupRun}
      [] OTHER -> {NoOther}

\* a run with an earlier or a concurrent run has no notes, an llm without stream and
\* a geocoder that finds nothing; key tells whether the table has the unique key
\* uk_plan_day, which makes no difference to a run that writes every key once
Inputs ==
    { i \in [days : 0..MaxDays, notes : 0..MaxNotes, hasStream : BOOLEAN,
             geo : {"hit", "miss"}, world : Worlds, key : BOOLEAN] :
        \/ i.world = "alone" /\ i.key
        \/ i.world /= "alone" /\ i.notes = 0 /\ ~i.hasStream /\ i.geo = "miss" }

\* the generator object is created; nothing has run
StreamStart(i) ==
    /\ inp = i
    /\ pc = "new"
    /\ out = <<>>
    /\ chunks = <<>>
    /\ llm_fails = FALSE
    /\ text_buf = <<>>
    /\ itinerary_data = Null
    /\ attractions = <<>>
    /\ restaurants = <<>>
    /\ flights = <<>>
    /\ accommodations = <<>>
    /\ day_num = 0
    /\ itinerary_details = <<>>
    /\ store = RowsAtStart(i.world)
    /\ other \in OthersAtStart(i.world)
    /\ calls = <<>>
    /\ outcomes = <<>>
    /\ fault = "none"

\* the stream run does not take part
StreamIdle ==
    StreamStart([days |-> 0, notes |-> 0, hasStream |-> TRUE, geo |-> "miss", world |-> "alone",
                 key |-> TRUE])

Init ==
    /\ AnchorIdle
    /\ ParseIdle
    /\ \E i \in Inputs : StreamStart(i)

\* an exception inside the try block: the handler yields the error event
Except ==
    /\ out' = Append(out, ErrorEv)
    /\ pc' = ExceptPc

\* yield ":\n\n"
Start ==
    /\ pc = "new"
    /\ out' = Append(out, CommentLine)
    /\ pc' = "comment"
    /\ UNCHANGED <<avars, pvars, inp, chunks, llm_fails, text_buf, itinerary_data, attractions, restaurants, flights, accommodations,
                   day_num, itinerary_details, store, other, calls, outcomes, fault>>

\* yield sse("started", ...)
YieldStarted ==
    /\ pc = "comment"
    /\ out' = Append(out, StartedEv)
    /\ pc' = "started"
    /\ UNCHANGED <<avars, pvars, inp, chunks, llm_fails, text_buf, itinerary_data, attractions, restaurants, flights, accommodations,
                   day_num, itinerary_details, store, other, calls, outcomes, fault>>

\* yield sse("heartbeat", ...)
YieldHeartbeat ==
    /\ pc = "started"
    /\ out' = Append(out, HeartbeatEv)
    /\ pc' = "heartbeat"
    /\ UNCHANGED <<avars, pvars, inp, chunks, llm_fails, text_buf, itinerary_data, attractions, restaurants, flights, accommodations,
                   day_num, itinerary_details, store, other, calls, outcomes, fault>>

\* days, the reference notes, the prompt, and the first yield of the try block.
\* XiaohongshuClient has no method get_note_cdata: with a note URL the call raises
\* AttributeError, before the try block, and the exception leaves the generator.
Prepare ==
    /\ pc = "heartbeat"
    /\ IF inp.notes > 0
       THEN /\ pc' = "raised"
            /\ out' = out
       ELSE IF inp.hasStream
       THEN /\ out' = Append(out, Progress("llm_stream_start"))
            /\ pc' = "llm_stream_start"
       ELSE /\ out' = Append(out, Progress("llm_invoke"))
            /\ pc' = "llm_invoke"
    /\ UNCHANGED <<avars, pvars, inp, chunks, llm_fails, text_buf, itinerary_data, attractions, restaurants, flights, accommodations,
                   day_num, itinerary_details, store, other, calls, outcomes, fault>>

\* if not token: continue
FalsyChunk(c) == c = <<>> \/ c = NoneText

RECURSIVE DropFalsy(_)
DropFalsy(cs) ==
    IF cs /= <<>> /\ FalsyChunk(Head(cs)) THEN DropFalsy(Tail(cs)) ELSE cs

\* mutant: the chunk replaces the text gathered so far
DeliverOverwrite(cs, fails) ==
    LET rest == DropFalsy(cs) IN
    IF rest /= <<>>
    THEN /\ text_buf' = Head(rest)
         /\ out' = Append(out, Token(Head(rest)))
         /\ chunks' = Tail(rest)
         /\ pc' = "llm_stream"
    ELSE /\ text_buf' = text_buf
         /\ chunks' = <<>>
         /\ IF fails THEN Except
            ELSE /\ out' = Append(out, Progress("llm_stream_end"))
                 /\ pc' = "llm_end"

\* for chunk in self.llm.stream(messages), up to the next yield
Deliver(cs, fails) ==
    LET rest == DropFalsy(cs) IN
    IF rest /= <<>>
    THEN /\ text_buf' = text_buf \o Head(rest)
         /\ out' = Append(out, Token(Head(rest)))
         /\ chunks' = Tail(rest)
         /\ pc' = "llm_stream"
    ELSE /\ text_buf' = text_buf
         /\ chunks' = <<>>
         /\ IF fails THEN Except
            ELSE /\ out' = Append(out, Progress("llm_stream_end"))
                 /\ pc' = "llm_end"

\* self.llm.stream(messages) is called and the loop runs to its first yield
StreamOpen ==
    /\ pc = "llm_stream_start"
    /\ \E t \in LLMTexts : \E cs \in Chunkings(t) : \E fails \in BOOLEAN :
          /\ llm_fails' = fails
          /\ fault' = IF fails THEN "llm" ELSE "none"
          /\ Deliver(cs, fails)
    /\ UNCHANGED <<avars, pvars, inp, itinerary_data, attractions, restaurants, flights, accommodations,
                   day_num, itinerary_details, store, other, calls, outcomes>>

\* the loop over the chunks resumes
StreamChunk ==
    /\ pc = "llm_stream"
    /\ Deliver(chunks, llm_fails)
    /\ UNCHANGED <<avars, pvars, inp, llm_fails, itinerary_data, attractions, restaurants, flights, accommodations,
                   day_num, itinerary_details, store, other, calls, outcomes, fault>>

\* resp = self.llm.invoke(messages); text_buf = resp.content or ""; yield the token
Invoke ==
    /\ pc = "llm_invoke"
    /\ \/ \E t \in LLMTexts \cup {NoneText} :
             /\ text_buf' = IF t = NoneText THEN <<>> ELSE t
             /\ out' = Append(out, Token(text_buf'))
             /\ pc' = "llm_end"
             /\ UNCHANGED <<llm_fails, fault>>
       \/ /\ llm_fails' = TRUE
          /\ fault' = "llm"
          /\ Except
          /\ UNCHANGED text_buf
    /\ UNCHANGED <<avars, pvars, inp, chunks, itinerary_data, attractions, restaurants, flights, accommodations,
                   day_num, itinerary_details, store, other, calls, outcomes>>

\* yield sse("progress", {"stage": "parse_json"})
YieldParse ==
    /\ pc = "llm_end"
    /\ out' = Append(out, Progress("parse_json"))
    /\ pc' = "parse"
    /\ UNCHANGED <<avars, pvars, inp, chunks, llm_fails, text_buf, itinerary_data, attractions, restaurants, flights, accommodations,
                   day_num, itinerary_details, store, other, calls, outcomes, fault>>

\* the response is parsed and logged
Parse ==
    /\ pc = "parse"
    /\ itinerary_data' = ParseItineraryResponse(text_buf, inp.days)
    /\ IF LogRaises(itinerary_data') THEN Except
       ELSE /\ out' = Append(out, Progress("fetch_recommendations"))
            /\ pc' = "fetch"
    /\ UNCHANGED <<avars, pvars, inp, chunks, llm_fails, text_buf, attractions, restaurants, flights, accommodations,
                   day_num, itinerary_details, store, other, calls, outcomes, fault>>

\* search_attractions and search_restaurants, coordinates for the recommendations
\* that lack them, the flights and accommodations of the plan (none), and the yield
\* of progress(persist)
Fetch ==
    /\ pc = "fetch"
    /\ \/ \E f \in FetchedIn(inp.world) :
             LET ea == EnsureLatLng(f.attractions, inp.geo)
                 er == EnsureLatLng(f.restaurants, inp.geo)
                 ga == GeocodeAll(f.accommodations, FALSE, inp.geo)
                 gf == GeocodeAll(f.flights, TRUE, inp.geo)
             IN
             /\ attractions' = ea.recs
             /\ restaurants' = er.recs
             /\ accommodations' = ga.recs
             /\ flights' = gf.recs
             /\ calls' = calls \o ea.calls \o er.calls \o ga.calls \o gf.calls
             /\ out' = Append(out, Progress("persist"))
             /\ pc' = "persist"
             /\ UNCHANGED fault
       \/ /\ fault' = "fetch"
          /\ Except
          /\ UNCHANGED <<attractions, restaurants, flights, accommodations, calls>>
    /\ UNCHANGED <<avars, pvars, inp, chunks, llm_fails, text_buf, itinerary_data,
                   day_num, itinerary_details, store, other, outcomes>>

\* the first part of an iteration of the persist loop: the start and end point, the
\* day's plan, the derived lists and the upsert with its commit.  What was done
\* before an exception stays done.
DayCommitBody(d, pts, prep) ==
    IF PointsRaise(pts)
    THEN /\ Except
         /\ UNCHANGED <<itinerary_data, store, calls, outcomes>>
    ELSE
      /\ itinerary_data' = prep.data
      /\ IF prep.sliceRaises
         THEN /\ Except
              /\ UNCHANGED <<store, calls, outcomes>>
         ELSE \E oc \in WriteOutcomes(TableMissing(other)) :
              /\ outcomes' = Append(outcomes, oc)
              /\ store' = IF oc = "ok" THEN Upsert(store, inp.key, PlanId, d, Row(prep)) ELSE store
              /\ calls' = Append(calls, UpsertCall(d))
              /\ IF PersistRaises(oc)
                 THEN Except
                 ELSE /\ pc' = "in_day"
                      /\ UNCHANGED out

DayCommit ==
    /\ pc \in {"persist", "day"}
    /\ day_num + 1 \in DayRange(inp.days)
    /\ DayCommitBody(day_num + 1, DayPoints(accommodations, flights, inp.days, day_num + 1),
                     DayPrep(itinerary_data, day_num + 1))
    /\ UNCHANGED <<avars, pvars, inp, chunks, llm_fails, text_buf, attractions, restaurants, flights,
                   accommodations, day_num, itinerary_details, other, fault>>

\* the second part: the detail for the result, the items with their geocoder calls,
\* and the yield of the day event.  The locals of the iteration are those of the
\* first part: the derivation has written its lists into itinerary_data, and deriving
\* from them again gives the same plan and lists.
DayBody(d, pts, prep, asm) ==
    /\ itinerary_details' = Append(itinerary_details, Detail(prep, d))
    /\ calls' = calls \o asm.calls
    /\ IF asm.raised
       THEN /\ Except
            /\ UNCHANGED day_num
       ELSE /\ out' = Append(out, DayEv(d, asm.items, pts))
            /\ pc' = "day"
            /\ day_num' = d

DayStep ==
    /\ pc = "in_day"
    /\ DayBody(day_num + 1, DayPoints(accommodations, flights, inp.days, day_num + 1),
               DayPrep(itinerary_data, day_num + 1),
               Assemble(DayPrep(itinerary_data, day_num + 1), day_num + 1,
                        attractions, restaurants, inp.geo))
    /\ UNCHANGED <<avars, pvars, inp, chunks, llm_fails, text_buf, itinerary_data, attractions,
                   restaurants, flights, accommodations, store, other, outcomes, fault>>

\* the loop is over: yield sse("result", ...)
YieldResult ==
    /\ pc \in {"persist", "day"}
    /\ day_num + 1 \notin DayRange(inp.days)
    /\ out' = Append(out, ResultEv(inp.days, itinerary_details))
    /\ pc' = "result"
    /\ UNCHANGED <<avars, pvars, inp, chunks, llm_fails, text_buf, itinerary_data, attractions, restaurants, flights, accommodations,
                   day_num, itinerary_details, store, other, calls, outcomes, fault>>

\* resumed after the result or the error event, the generator returns
Finish ==
    /\ pc \in {"result", "error"}
    /\ pc' = "done"
    /\ UNCHANGED <<avars, pvars, inp, out, chunks, llm_fails, text_buf, itinerary_data, attractions,
                   restaurants, flights, accommodations, day_num, itinerary_details, store, other, calls, outcomes, fault>>

\* the first part of an iteration of the persist loop of the other stream: the upsert
\* of its next day and the commit; when the upsert raises, the yield of its error event
OtherDayCommit ==
    /\ other.kind = "stream"
    /\ other.pc \in {"persist", "day"}
    /\ other.day_num + 1 \in DayRange(other.days)
    /\ \E oc \in OtherOutcomes :
          /\ store' = IF oc = "ok"
                      THEN Upsert(store, inp.key, other.plan, other.day_num + 1,
                                  Row(DayPrep(other.data, other.day_num + 1)))
                      ELSE store
          /\ other' = [other EXCEPT !.pc = IF PersistRaises(oc) THEN ExceptPc ELSE "in_day",
                                    !.outcomes = Append(@, oc)]
    /\ UNCHANGED <<avars, pvars, inp, pc, out, chunks, llm_fails, text_buf, itinerary_data,
                   attractions, restaurants, flights, accommodations, day_num,
                   itinerary_details, calls, outcomes, fault>>

\* the second part: the yield of its day event
OtherDayStep ==
    /\ other.kind = "stream"
    /\ other.pc = "in_day"
    /\ other' = [other EXCEPT !.pc = "day", !.day_num = @ + 1, !.out = Append(@, "day")]
    /\ UNCHANGED <<avars, pvars, inp, pc, out, chunks, llm_fails, text_buf, itinerary_data,
                   attractions, restaurants, flights, accommodations, day_num,
                   itinerary_details, store, calls, outcomes, fault>>

\* generate_itinerary, an iteration of its loop: the plan of the day as the LLM gave
\* it, its spots and restaurants without derivation, create_itinerary_detail and the
\* commit.  An exception (the day is no dict, a list that cannot be sliced, the
\* upsert raises) goes to the except clause, which returns the failure.
TaskDay ==
    /\ other.kind = "task"
    /\ other.pc = "persist"
    /\ other.day_num + 1 \in DayRange(other.days)
    /\ IF TaskPrep(other.data, other.day_num + 1).raises
       THEN /\ other' = [other EXCEPT !.pc = "failed"]
            /\ UNCHANGED store
       ELSE \E oc \in OtherOutcomes :
               /\ store' = IF oc = "ok"
                           THEN Upsert(store, inp.key, other.plan, other.day_num + 1,
                                       TaskRow(TaskPrep(other.data, other.day_num + 1)))
                           ELSE store
               /\ other' = IF PersistRaises(oc)
                           THEN [other EXCEPT !.pc = "failed", !.outcomes = Append(@, oc)]
                           ELSE [other EXCEPT !.day_num = @ + 1, !.outcomes = Append(@, oc)]
    /\ UNCHANGED <<avars, pvars, inp, pc, out, chunks, llm_fails, text_buf, itinerary_data,
                   attractions, restaurants, flights, accommodations, day_num,
                   itinerary_details, calls, outcomes, fault>>

\* generate_itinerary, after its loop: return {"success": True, ...}
TaskReturn ==
    /\ other.kind = "task"
    /\ other.pc = "persist"
    /\ other.day_num + 1 \notin DayRange(other.days)
    /\ other' = [other EXCEPT !.pc = "done"]
    /\ UNCHANGED <<avars, pvars, inp, pc, out, chunks, llm_fails, text_buf, itinerary_data,
                   attractions, restaurants, flights, accommodations, day_num,
                   itinerary_details, store, calls, outcomes, fault>>

\* create_all_tables up to DROP TABLE IF EXISTS itinerary_details, a statement that
\* commits by itself: the table is gone; or there is no connection, or an earlier
\* statement raises, and the function returns False with the table as it was
CreateAllTablesDrop ==
    /\ other.kind = "setup"
    /\ other.pc = "persist"
    /\ \/ /\ store' = <<>>
          /\ other' = [other EXCEPT !.pc = "dropped"]
       \/ /\ other' = [other EXCEPT !.pc = "failed"]
          /\ UNCHANGED store
    /\ UNCHANGED <<avars, pvars, inp, pc, out, chunks, llm_fails, text_buf, itinerary_data,
                   attractions, restaurants, flights, accommodations, day_num,
                   itinerary_details, calls, outcomes, fault>>

\* create_all_tables from CREATE TABLE itinerary_details: the table is there again,
\* with the unique key (travel_models.py) or without (create_tables.py), and the
\* function returns True, or False when a later statement raises; or the statement
\* raises and the function returns False with no table ("nocreate")
CreateAllTablesCreate ==
    /\ other.kind = "setup"
    /\ other.pc = "dropped"
    /\ \/ /\ \E k \in BOOLEAN : inp' = [inp EXCEPT !.key = k]
          /\ \E r \in {"done", "failed"} : other' = [other EXCEPT !.pc = r]
       \/ /\ other' = [other EXCEPT !.pc = "nocreate"]
          /\ UNCHANGED inp
    /\ UNCHANGED <<avars, pvars, pc, out, chunks, llm_fails, text_buf, itinerary_data,
                   attractions, restaurants, flights, accommodations, day_num,
                   itinerary_details, store, calls, outcomes, fault>>

Next ==
    \/ Start
    \/ YieldStarted
    \/ YieldHeartbeat
    \/ Prepare
    \/ StreamOpen
    \/ StreamChunk
    \/ Invoke
    \/ YieldParse
    \/ Parse
    \/ Fetch
    \/ DayCommit
    \/ DayStep
    \/ YieldResult
    \/ Finish
    \/ OtherDayCommit
    \/ OtherDayStep
    \/ TaskDay
    \/ TaskReturn
    \/ CreateAllTablesDrop
    \/ CreateAllTablesCreate

Spec == Init /\ [][Next]_vars

----------------------------------------------------------------------------
(* Runs of the parser on bounded inputs.                                    *)

RECURSIVE SeqsUpTo(_, _)
SeqsUpTo(S, n) ==
    IF n = 0 THEN {<<>>}
    ELSE LET shorter == SeqsUpTo(S, n - 1) IN
         shorter \cup {Append(q, x) : q \in shorter, x \in S}

\* the alphabet of the exhaustive texts
TextAlphabet == {"{", "}", "[", "]", ":", "k", " ", "x", FenceTok}
\* the wrappings of an object: whitespace, prose (braces included), a code fence
PreAlphabet == {" ", "x", FenceTok, "json", "{", "}"}
PostAlphabet == {" ", "x", FenceTok, "}"}

WrappedObjects ==
    { Obj(<<>>),
      Obj(<<Pair("k", Str("s"))>>),
      Obj(<<Pair("k", Obj(<<Pair("s", Arr(<<Str("k")>>))>>))>>),
      Obj(<<Pair("day_1", DefaultDay(1))>>) }

NoObj == Null

PlainInputs ==
    { [kind |-> "plain", text |-> t, days |-> d, obj |-> NoObj, pre |-> <<>>, post |-> <<>>] :
        t \in SeqsUpTo(TextAlphabet, MaxLen) \cup {NoneText}, d \in 0..MaxDays }

WrapInputs ==
    { [kind |-> "wrap", text |-> pre \o Encode(o) \o post, days |-> d,
       obj |-> o, pre |-> pre, post |-> post] :
        o \in WrappedObjects, pre \in SeqsUpTo(PreAlphabet, MaxPre),
        post \in SeqsUpTo(PostAlphabet, MaxPost), d \in {MaxDays} }

\* the activity tokens in the shorter wrappings: the object is written as one token
WrappedActs == {"ActA", "ActB"}

ActInputs ==
    { [kind |-> "act", text |-> pre \o <<a>> \o post, days |-> d,
       obj |-> ActValue(a), pre |-> pre, post |-> post] :
        a \in WrappedActs, pre \in SeqsUpTo(PreAlphabet, MaxPre - 1),
        post \in SeqsUpTo(PostAlphabet, MaxPost - 1), d \in {MaxDays} }

InitParse ==
    /\ \/ p_in \in PlainInputs
       \/ p_in \in WrapInputs
       \/ p_in \in ActInputs
    /\ p_pc = "call"
    /\ p_result = Null
    /\ AnchorIdle
    /\ StreamIdle

ParseCall ==
    /\ p_pc = "call"
    /\ p_result' = ParseItineraryResponse(p_in.text, p_in.days)
    /\ p_pc' = "ret"
    /\ UNCHANGED p_in
    /\ UNCHANGED <<avars, svars>>

NextParse == ParseCall

SpecParse == InitParse /\ [][NextParse]_vars

----------------------------------------------------------------------------
(* Runs of the anchor derivation on bounded inputs.                         *)

\* the accommodations of the runs: a stay with or without a check-out date, or no
\* dates at all; coordinates stored, stored with latitude 0, or missing
Stays(address) ==
    { Obj(<<Pair("city", Str("c")), Pair("address", Str(address)),
            Pair("check_in_date", ci), Pair("check_out_date", co),
            Pair("latitude", c[1]), Pair("longitude", c[2])>>) :
        ci \in {Null} \cup {Num(k) : k \in 0..MaxDate},
        co \in {Null} \cup {Num(k) : k \in 1..(MaxDate + 1)},
        c \in {<<Num(5), Num(5)>>, <<Num(0), Num(5)>>, <<Null, Null>>} }

\* the flights of the runs: the columns of the flights table, the coordinates in the
\* legacy columns, in the columns of the two airports, or missing
FlightRows(dep, arr) ==
    { Obj(<<Pair("departure_airport", Str(dep)), Pair("arrival_airport", Str(arr)),
            Pair("departure_time", dt), Pair("return_time", rt)>> \o c) :
        dt \in {Null} \cup {DateTime(k, 8) : k \in 1..MaxDate},
        rt \in {Null} \cup {DateTime(k, 8) : k \in 1..MaxDate},
        c \in { <<Pair("latitude", Num(5)), Pair("longitude", Num(5))>>,
                <<Pair("latitude", Num(0)), Pair("longitude", Num(5))>>,
                <<Pair("latitude", Null), Pair("longitude", Null)>>,
                <<Pair("departure_latitude", Num(5)), Pair("departure_longitude", Num(5)),
                  Pair("arrival_latitude", Num(7)), Pair("arrival_longitude", Num(7))>> } }

\* a stay that covers every day of the runs
LongStay ==
    Obj(<<Pair("city", Str("c")), Pair("address", Str("h0")),
          Pair("check_in_date", Num(0)), Pair("check_out_date", Num(MaxDate + 1)),
          Pair("latitude", Num(5)), Pair("longitude", Num(5))>>)

\* one run: the rows of the two tables, the day count, the day and the geocoder
AnchorStart(accs, fls, days, d, geo) ==
    /\ d <= days
    /\ a_in = [accs |-> accs, flights |-> fls, days |-> days, d |-> d, geo |-> geo]
    /\ a_pc = "call"
    /\ a_out = NoPoints

\* up to two accommodations and no flight; one flight during the long stay; one or
\* two flights and no accommodation; every day of every day count
InitAnchor ==
    /\ \E n \in 1..MaxDate, d \in 1..MaxDate, g \in {"hit", "miss"} :
          \/ \E a \in {<<>>} \cup {<<x>> : x \in Stays("h1")}
                        \cup {<<x, y>> : x \in Stays("h1"), y \in Stays("h2")} :
                AnchorStart(a, <<>>, n, d, g)
          \/ \E f \in {<<x>> : x \in FlightRows("P1", "Q1")} :
                AnchorStart(<<LongStay>>, f, n, d, g)
          \/ \E f \in {<<x>> : x \in FlightRows("P1", "Q1")}
                        \cup {<<x, y>> : x \in FlightRows("P1", "Q1"),
                                         y \in FlightRows("P2", "Q2")} :
                AnchorStart(<<>>, f, n, d, g)
    /\ ParseIdle
    /\ StreamIdle

\* the records are geocoded as the fetch step does, then the points of day d are derived
AnchorCall ==
    /\ a_pc = "call"
    /\ a_out' = DayPoints(GeocodeAll(a_in.accs, FALSE, a_in.geo).recs,
                          GeocodeAll(a_in.flights, TRUE, a_in.geo).recs,
                          a_in.days, a_in.d)
    /\ a_pc' = "ret"
    /\ UNCHANGED <<a_in, pvars, svars>>

NextAnchor == AnchorCall

SpecAnchor == InitAnchor /\ [][NextAnchor]_vars

----------------------------------------------------------------------------
(* Properties of the parser.                                                *)

\* C8: _parse_itinerary_response returns a dict for every input text (null
\* or empty text, a JSON array or scalar, fenced text, garbage) and every
\* days value; it never returns None or another non-dict.
C8_ParseReturnsDict == p_pc = "ret" => IsDict(p_result)

\* a JSON array as the whole text: step 1 decodes it and must not return it
C8_Witness ==
    /\ p_pc = "ret"
    /\ p_in.text = <<"[", "]">>
    /\ IsDict(p_result)

\* no "{" of the leading wrapping starts a well-formed JSON object in the wrapped text
NoObjectStartsInPre(in) ==
    \A i \in 1..Len(in.pre) :
        in.pre[i] = "{" =>
            LET r == RawDecode(SubSeq(in.text, i, Len(in.text))) IN ~(r.ok /\ IsDict(r.v))

\* C9 as stated: for any valid JSON object O and any wrapping of O with
\* whitespace, prose or a code fence, the parser returns O.
C9_AnyWrapping ==
    (p_pc = "ret" /\ p_in.kind = "wrap") => p_result = p_in.obj

\* C9 amended: the parser returns O for every wrapping of O with whitespace,
\* prose or a code fence in which no "{" of the leading prose starts a
\* well-formed JSON object.
C9_WrapRoundTrip ==
    (p_pc = "ret" /\ p_in.kind = "wrap" /\ NoObjectStartsInPre(p_in)) => p_result = p_in.obj

\* an object in a code fence with a tag, returned as it is
C9_Witness ==
    /\ p_pc = "ret"
    /\ p_in.kind = "wrap"
    /\ p_in.pre = <<FenceTok, "json">>
    /\ p_in.post = <<" ", FenceTok>>
    /\ p_in.obj = Obj(<<Pair("k", Str("s"))>>)
    /\ p_result = p_in.obj

\* no part of the text is a well-formed JSON object (such a part, its
\* whitespace stripped, runs from an opening to a closing brace)
Garbage(text) ==
    \A i \in 1..Len(text) : \A j \in i..Len(text) :
        (HoldsOpen(text[i]) /\ HoldsClose(text[j])) =>
            LET r == Loads(SubSeq(text, i, j)) IN ~(r.ok /\ IsDict(r.v))

IsEmptyDayPlan(v) ==
    /\ IsDict(v)
    /\ IsDict(Get(v, "schedule"))
    /\ Get(Get(v, "schedule"), "morning") = Arr(<<>>)
    /\ Get(Get(v, "schedule"), "afternoon") = Arr(<<>>)
    /\ Get(Get(v, "schedule"), "evening") = Arr(<<>>)
    /\ Get(v, "tips") = Str("")

\* C10: for a text that cannot be parsed as a JSON object the parser returns
\* an object with exactly `days` keys day_1..day_days, each an empty DayPlan
\* (empty morning, afternoon, evening, empty tip).
C10_GarbageGivesDefault ==
    (p_pc = "ret" /\ Garbage(p_in.text)) =>
        /\ IsDict(p_result)
        /\ Len(p_result.m) = p_in.days
        /\ \A d \in 1..p_in.days :
              /\ p_result.m[d].k = DayKey(d)
              /\ IsEmptyDayPlan(p_result.m[d].v)

\* truncated JSON, two days
C10_Witness ==
    /\ p_pc = "ret"
    /\ p_in.text = <<"{", "k", ":">>
    /\ p_in.days = 2
    /\ Garbage(p_in.text)
    /\ Len(p_result.m) = 2
    /\ IsEmptyDayPlan(Get(p_result, "day_2"))

----------------------------------------------------------------------------
(* Properties of the stream.                                                *)

Last(s) == s[Len(s)]
Count(ev, name) == Cardinality({i \in 1..Len(ev) : ev[i].name = name})
Has(ev, name) == \E i \in 1..Len(ev) : ev[i].name = name

\* an event of the LLM phase
IsLLMPhase(e) ==
    \/ e.name = "token"
    \/ e.name = "progress" /\ e.stage \in {"llm_stream_start", "llm_stream_end", "llm_invoke"}

\* started, heartbeat, LLM-phase events up to position a, the three stages, the days, result
SuccessShape(ev, days) ==
    LET n == IF days > 0 THEN days ELSE 0 IN
    \E a \in 3..Len(ev) :
        /\ Len(ev) = a + 3 + n + 1
        /\ ev[1].name = "started"
        /\ ev[2].name = "heartbeat"
        /\ \A i \in 3..a : IsLLMPhase(ev[i])
        /\ ev[a + 1] = Progress("parse_json")
        /\ ev[a + 2] = Progress("fetch_recommendations")
        /\ ev[a + 3] = Progress("persist")
        /\ \A j \in 1..n : ev[a + 3 + j].name = "day" /\ ev[a + 3 + j].day = j
        /\ ev[Len(ev)].name = "result"

\* C1: a run in which no exception occurs yields exactly started, heartbeat, one or
\* more LLM-phase progress/token events, progress(parse_json),
\* progress(fetch_recommendations), progress(persist), one day event per day with
\* day_number 1..N ascending, then result, and no error event.
C1_SuccessOrder ==
    (pc \in {"result", "done"} /\ ~Has(Events, "error")) => SuccessShape(Events, inp.days)

\* a streamed two-day run that came to its result
C1_Witness ==
    /\ pc = "done"
    /\ inp.days = 2
    /\ inp.hasStream
    /\ Count(Events, "token") = 2
    /\ Count(Events, "day") = 2
    /\ Last(Events).name = "result"

\* C2: if the upsert of day k raises, the stream ends with a single error event, and
\* neither a day event for a day after k (nor that of day k) nor a result event is
\* ever yielded.
C2_PersistRaiseEndsWithError ==
    \A k \in 1..Len(outcomes) :
        outcomes[k] = "raise" =>
            /\ Events /= <<>>
            /\ Last(Events).name = "error"
            /\ Count(Events, "error") = 1
            /\ ~Has(Events, "result")
            /\ \A i \in 1..Len(Events) : ~(Events[i].name = "day" /\ Events[i].day >= k)

\* the upsert of day 2 raised after day 1 went through, and the generator has returned
C2_Witness ==
    /\ pc = "done"
    /\ outcomes = <<"ok", "raise">>
    /\ Count(Events, "day") = 1
    /\ Last(Events).name = "error"

\* C3: after started, no exception of any step (the reference notes included) leaves
\* the generator; each ends the stream with an error event.
C3_ExceptionBecomesError ==
    Has(out, "started") => pc /= "raised"

\* C4: at most one error event, and it is the last event; never a result and an error
\* in one stream; nothing follows a result or an error.
C4_TerminalEventIsLast ==
    /\ Count(Events, "error") <= 1
    /\ \A i \in 1..Len(Events) : Events[i].name \in {"error", "result"} => i = Len(Events)
    /\ ~(Has(Events, "error") /\ Has(Events, "result"))

\* an error after a day event, day assembly having raised, and the generator has returned
C4_Witness ==
    /\ pc = "done"
    /\ Has(Events, "day")
    /\ Last(Events).name = "error"
    /\ \A k \in 1..Len(outcomes) : outcomes[k] /= "raise"

\* C5: when the day event of day k+1 is yielded, the row of day k has been written to
\* the table by this run, whatever the upsert did.
C5_PreviousDayPersisted ==
    \A i \in 1..Len(out) :
        (out[i].name = "day" /\ out[i].day > 1) => RowOf(store, PlanId, out[i].day - 1) /= NoRow

\* the name a normalized item takes from its activity
NameOk(item, act) == Truthy(ActName(act)) => item.name = ActName(act)

\* C6: for a day whose schedule has an activity, items[seg] of the day event holds one
\* item per activity dict of schedule[seg], in order, with timeOfDay = seg.
C6_ItemsMirrorSchedule ==
    \A i \in 1..Len(out) :
        out[i].name = "day" =>
            LET sch == ScheduleOf(DayItinerary(itinerary_data, out[i].day)) IN
            (\E s \in SegSet : AsList(Get(sch, s)) /= <<>>) =>
                \A seg \in SegSet :
                    LET acts == AsList(Get(sch, seg))
                        items == out[i].items[seg]
                    IN /\ Len(items) = Len(acts)
                       /\ \A j \in 1..Len(items) :
                             items[j].timeOfDay = seg /\ NameOk(items[j], acts[j])

\* no collaborator failed: the LLM and the searches answered, every upsert wrote its row
Healthy ==
    /\ inp.notes = 0
    /\ fault = "none"
    /\ \A k \in 1..Len(outcomes) : outcomes[k] = "ok"

\* C7: whatever text the LLM returns, with healthy collaborators the stream ends with
\* a result event and has no error event.
C7_MalformedTextEndsWithResult ==
    Healthy => /\ ~Has(Events, "error")
               /\ pc = "done" => Last(Events).name = "result"

\* the three segments of a plan are present and empty
HasEmptySchedule(plan) ==
    /\ IsDict(plan)
    /\ IsDict(Get(plan, "schedule"))
    /\ \A seg \in SegSet : Get(Get(plan, "schedule"), seg) = Arr(<<>>)

\* C11: once the response is parsed, every day 1..days has a plan that is a dict, and
\* the plan of a day the LLM omitted has a schedule whose morning, afternoon and
\* evening are empty lists (the plan being the one the persist loop takes for the day).
C11_EveryDayHasPlan ==
    itinerary_data /= Null =>
        \A d \in 1..inp.days :
            /\ IsDict(DayItinerary(itinerary_data, d))
            /\ ~HasKey(itinerary_data, DayKey(d)) =>
                   HasEmptySchedule(DayItinerary(itinerary_data, d))

\* C12: the result event of a run of N >= 1 days carries exactly N itinerary details,
\* with day_number 1..N in ascending order, each with an itinerary that is a dict
\* (never null), whatever the LLM returned for the day.
C12_ResultHasEveryDay ==
    \A i \in 1..Len(out) :
        (out[i].name = "result" /\ inp.days >= 1) =>
            /\ Len(out[i].details) = inp.days
            /\ \A k \in 1..Len(out[i].details) :
                  /\ out[i].details[k].day_number = k
                  /\ IsDict(out[i].details[k].itinerary)

\* a two-day run came to its result although the LLM gave a string for day 1
C12_Witness ==
    /\ pc = "done"
    /\ inp.days = 2
    /\ Get(itinerary_data, "day_1") = Str("s")
    /\ Last(Events).name = "result"
    /\ Len(Last(Events).details) = 2

----------------------------------------------------------------------------
(* Properties of the items of a day and of the calls of a run.              *)

\* the LLM gave the day no activity: no segment and neither derived list has an entry
ZeroActivities(d) ==
    LET prep == DayPrep(itinerary_data, d) IN
    /\ \A s \in SegSet : AsList(Get(ScheduleOf(prep.it), s)) = <<>>
    /\ ElemsOf(prep.spots) = <<>>
    /\ ElemsOf(prep.restaurants) = <<>>

\* C15: when the search returned an attraction or a restaurant, the day event of
\* every day has at least one item in its morning, afternoon or evening.
C15_NoEmptyDayWithRecommendations ==
    \A i \in 1..Len(out) :
        (out[i].name = "day" /\ (attractions /= <<>> \/ restaurants /= <<>>)) =>
            ~AllEmpty(out[i].items)

\* C16: with at least 3 attractions and at least 1 restaurant recommended and no
\* activity from the LLM for day 2, the day event of day 2 has at least one item.
C16_SecondDaySynthesized ==
    \A i \in 1..Len(out) :
        ( /\ out[i].name = "day"
          /\ out[i].day = 2
          /\ Len(attractions) >= 3
          /\ Len(restaurants) >= 1
          /\ ZeroActivities(2) ) =>
            ~AllEmpty(out[i].items)

\* the day event of day 2 of such a run is out, with a synthesized item
C16_Witness ==
    /\ Len(attractions) >= 3
    /\ Len(restaurants) >= 1
    /\ ZeroActivities(2)
    /\ \E i \in 1..Len(out) :
          /\ out[i].name = "day"
          /\ out[i].day = 2
          /\ \E s \in SegSet : \E j \in 1..Len(out[i].items[s]) : out[i].items[s][j].fallback

\* C17: no token event has an empty or null delta, whether the text comes chunk by
\* chunk from llm.stream or in one piece from llm.invoke.
C17_NoEmptyToken ==
    \A i \in 1..Len(out) :
        out[i].name = "token" => (out[i].delta /= <<>> /\ out[i].delta /= NoneText)

\* C18: when no database connection can be obtained for the write of a day's detail,
\* the stream ends with an error event and yields no result event.
C18_UnreachableStoreEndsWithError ==
    (pc = "done" /\ \E k \in 1..Len(outcomes) : outcomes[k] = "none") =>
        /\ Last(Events).name = "error"
        /\ ~Has(Events, "result")

\* C19: every geocoder lookup made for the activities of day d comes before the
\* upsert of the detail of day d.
C19_BackfillBeforeUpsert ==
    \A i \in 1..Len(calls) : \A j \in 1..Len(calls) :
        (calls[i].op = "upsert" /\ calls[j].op = "geocode" /\ calls[j].day = calls[i].day)
            => j < i

\* C20: a day event holds items synthesized from the recommendation lists only if the
\* spots and restaurants lists of the day and its three segments are empty after
\* normalization.
C20_SynthesisOnlyForEmptyDay ==
    \A i \in 1..Len(out) :
        ( /\ out[i].name = "day"
          /\ \E s \in SegSet : \E j \in 1..Len(out[i].items[s]) : out[i].items[s][j].fallback )
        => ZeroActivities(out[i].day)

----------------------------------------------------------------------------
(* Properties of the anchor derivation.                                     *)

\* the point is the given accommodation
IsLodging(p, acc) == p.type = "accommodation" /\ p.name = Get(acc, "address")

\* C13: for a single accommodation with stored coordinates, check-in date a and
\* check-out date b with a < b, and no flights: on date a the start point of the day
\* is the lodging, on every date strictly between a and b the start and the end point
\* are the lodging, and on date b the end point is the lodging.
C13_SingleLodgingAnchors ==
    ( /\ a_pc = "ret"
      /\ Len(a_in.accs) = 1
      /\ a_in.flights = <<>>
      /\ IsNum(Get(a_in.accs[1], "latitude")) /\ IsNum(Get(a_in.accs[1], "longitude"))
      /\ IsNum(Get(a_in.accs[1], "check_in_date")) /\ IsNum(Get(a_in.accs[1], "check_out_date"))
      /\ Get(a_in.accs[1], "check_in_date").n < Get(a_in.accs[1], "check_out_date").n )
    =>
    LET acc == a_in.accs[1]
        a == Get(acc, "check_in_date").n
        b == Get(acc, "check_out_date").n
    IN
    /\ a_in.d = a => IsLodging(a_out.start, acc)
    /\ (a < a_in.d /\ a_in.d < b) => (IsLodging(a_out.start, acc) /\ IsLodging(a_out.end, acc))
    /\ a_in.d = b => IsLodging(a_out.end, acc)

\* the flight row has a departure airport name and coordinates for it, in the columns
\* of the departure airport or in the legacy columns
HasDepartureAirport(f) ==
    /\ Truthy(Get(f, "departure_airport"))
    /\ \/ IsNum(Get(f, "departure_latitude")) /\ IsNum(Get(f, "departure_longitude"))
       \/ IsNum(Get(f, "latitude")) /\ IsNum(Get(f, "longitude"))

\* C14: on a day whose date is the departure date of a flight that has a departure
\* airport name and coordinates, the end point of the day is the departure airport of
\* that flight, whatever end point the accommodations gave the day.
C14_DepartureIsEndPoint ==
    a_pc = "ret" =>
        \A i \in 1..Len(a_in.flights) :
            ( /\ ToDate(Get(a_in.flights[i], "departure_time")) = CurrentDate(a_in.d)
              /\ HasDepartureAirport(a_in.flights[i]) )
            => ( /\ a_out.end.type = "airport"
                 /\ a_out.end.name = Get(a_in.flights[i], "departure_airport") )

\* the records of the run as the fetch step leaves them
AccsOfRun == GeocodeAll(a_in.accs, FALSE, a_in.geo).recs
FlightsOfRun == GeocodeAll(a_in.flights, TRUE, a_in.geo).recs

\* the stay of the record strictly contains the date, and the record has coordinates
StrictlyContains(acc, cur) ==
    /\ IsNum(ToDate(Get(acc, "check_in_date"))) /\ IsNum(ToDate(Get(acc, "check_out_date")))
    /\ ToDate(Get(acc, "check_in_date")).n < cur.n
    /\ cur.n < ToDate(Get(acc, "check_out_date")).n
    /\ Truthy(Get(acc, "latitude")) /\ Truthy(Get(acc, "longitude"))

\* C21: an accommodation whose stay strictly contains the current date assigns the
\* start and the end point only where each is still unset: a point set by the
\* accommodation evaluated before it for the same day is never overwritten.
C21_ContainingStayKeepsPoints ==
    ( /\ a_pc = "ret"
      /\ Len(a_in.accs) = 2
      /\ a_in.flights = <<>>
      /\ StrictlyContains(AccsOfRun[2], CurrentDate(a_in.d)) )
    =>
    LET first == AccStep(AccsOfRun[1], CurrentDate(a_in.d), NoPoints) IN
    /\ first.start /= NoPoint => a_out.start = first.start
    /\ first.end /= NoPoint => a_out.end = first.end

\* the flight has a date of departure (of arrival) and coordinates for that airport
Departs(f) == ToDate(Get(f, "departure_time")) /= Null /\ HasAirport(f, "departure")
Arrives(f) == ArrivalDate(f) /= Null

\* C22: with flights only, on day 1 a start point left unset by the date rules is the
\* departure airport of the flight with the earliest departure, and on the last day an
\* end point left unset is the arrival airport of the flight with the latest arrival,
\* in whatever order the flights are listed.
C22_EdgeDaysByTime ==
    ( a_pc = "ret" /\ a_in.accs = <<>> )
    =>
    LET fls == FlightsOfRun
        pts == FlightLoop(fls, CurrentDate(a_in.d), NoPoints)
    IN
    /\ (a_in.d = 1 /\ pts.start = NoPoint) =>
          \A i \in 1..Len(fls) :
              ( /\ Departs(fls[i])
                /\ \A j \in 1..Len(fls) :
                      (j /= i /\ Departs(fls[j])) =>
                          ToDate(Get(fls[i], "departure_time")).n
                              < ToDate(Get(fls[j], "departure_time")).n )
              => a_out.start = AirportPoint(fls[i], "departure")
    /\ (a_in.d = a_in.days /\ pts.end = NoPoint) =>
          \A i \in 1..Len(fls) :
              ( /\ Arrives(fls[i]) /\ HasAirport(fls[i], "arrival")
                /\ \A j \in 1..Len(fls) :
                      (j /= i /\ Arrives(fls[j])) =>
                          ArrivalDate(fls[i]).n > ArrivalDate(fls[j]).n )
              => a_out.end = AirportPoint(fls[i], "arrival")

----------------------------------------------------------------------------
(* Properties of the geocoder calls, the derived lists and the token text.  *)

\* the text is the address of an accommodation or an airport of a flight of the run
IsAnchorPlace(q) ==
    \/ \E k \in 1..Len(accommodations) : q = Get(accommodations[k], "address")
    \/ \E k \in 1..Len(flights) :
          q = Get(flights[k], "departure_airport") \/ q = Get(flights[k], "arrival_airport")

\* C23: no geocoder call of a run asks for the address of an accommodation or for an
\* airport of a flight, and no start or end point of a day event carries coordinates
\* that come from the geocoder.
C23_NoAnchorGeocoding ==
    /\ \A i \in 1..Len(calls) : calls[i].op = "geocode" => ~IsAnchorPlace(calls[i].arg)
    /\ \A i \in 1..Len(out) :
          out[i].name = "day" =>
              /\ out[i].points.start /= NoPoint => out[i].points.start.lat /= GeoCoord.n
              /\ out[i].points.end /= NoPoint => out[i].points.end.lat /= GeoCoord.n

\* the dict activities of a day with their kind: those of the three segments when one
\* of them has an activity, the spots and the restaurants of the day otherwise
DayActs(prep) ==
    LET sch == ScheduleOf(prep.it)
        all == AsList(Get(sch, "morning")) \o AsList(Get(sch, "afternoon"))
                 \o AsList(Get(sch, "evening"))
        IsDictAct(x) == IsDict(x.act)
    IN
    IF all /= <<>>
    THEN [i \in 1..Len(all) |->
            [ptype |-> IF IsRestaurantAct(all[i]) THEN "restaurant" ELSE "spot", act |-> all[i]]]
    ELSE SelectSeq(TagAll("spot", ElemsOf(prep.spots))
                     \o TagAll("restaurant", ElemsOf(prep.restaurants)), IsDictAct)

\* the activity has a name and lacks a coordinate
LacksCoords(act) ==
    /\ NumOf(Get(act, "latitude")) = Null \/ NumOf(Get(act, "longitude")) = Null
    /\ IsStr(ActName(act)) /\ Truthy(ActName(act))

\* the recommendations an activity of the kind is searched in
SearchList(ptype) == IF TagCategory(ptype) = "spot" THEN attractions ELSE restaurants

\* C24: an activity of a day that lacks coordinates and whose name matches a
\* recommendation of its kind that has coordinates is an item of the day event with
\* the coordinates of the first such recommendation, and the geocoder is not asked
\* for it.
C24_MatchedActivityEmitted ==
    \A i \in 1..Len(out) :
        out[i].name = "day" =>
            LET acts == DayActs(DayPrep(itinerary_data, out[i].day)) IN
            \A k \in 1..Len(acts) :
                ( /\ LacksCoords(acts[k].act)
                  /\ MatchRec(ActName(acts[k].act), SearchList(acts[k].ptype), 1).found )
                =>
                /\ \E s \in SegSet : \E j \in 1..Len(out[i].items[s]) :
                      /\ out[i].items[s][j].name = ActName(acts[k].act)
                      /\ out[i].items[s][j].lat
                           = MatchRec(ActName(acts[k].act), SearchList(acts[k].ptype), 1).lat
                      /\ out[i].items[s][j].lng
                           = MatchRec(ActName(acts[k].act), SearchList(acts[k].ptype), 1).lng
                /\ \A c \in 1..Len(calls) :
                      calls[c] /= GeoCall(ActName(acts[k].act), out[i].day)

\* the plan of day d as the parser returned it, before the persist loop wrote to it
ParsedDay(d) == DayItinerary(ParseItineraryResponse(text_buf, inp.days), d)

\* the list is absent or empty
NoList(day_it, key) == ~HasKey(day_it, key) \/ Get(day_it, key) = Arr(<<>>)

\* the day has no spots and no restaurants of its own and a schedule that is not empty
DerivesLists(day_it) ==
    /\ NoList(day_it, "spots")
    /\ NoList(day_it, "restaurants")
    /\ IsDict(Get(day_it, "schedule")) /\ Get(day_it, "schedule") /= Obj(<<>>)

\* the dict activities of the schedule, morning first
ScheduleDicts(day_it) ==
    SelectSeq(NormList(Get(Get(day_it, "schedule"), "morning"))
                \o NormList(Get(Get(day_it, "schedule"), "afternoon"))
                \o NormList(Get(Get(day_it, "schedule"), "evening")), IsDict)

\* the type is "restaurant", or there is no type and there is a cuisine, cuisine_type
\* or price_range, by the keys the activity has
HasTypeRestaurant(p) ==
    \/ Get(p, "type") = Str("restaurant")
    \/ /\ ~HasKey(p, "type")
       /\ HasKey(p, "cuisine") \/ HasKey(p, "cuisine_type") \/ HasKey(p, "price_range")

\* the type is "restaurant", or the type is missing, null or empty and the cuisine,
\* cuisine_type or price_range is neither missing, null nor empty
SaysRestaurant(p) ==
    IF Truthy(Get(p, "type"))
    THEN Get(p, "type") = Str("restaurant")
    ELSE Truthy(Get(p, "cuisine")) \/ Truthy(Get(p, "cuisine_type")) \/ Truthy(Get(p, "price_range"))
SaysSpot(p) == ~SaysRestaurant(p)

\* the lists of the day's plan are those of the activities of orig, the restaurants
\* told by IsRest
ListsDerivedBy(detail, orig, IsRest(_)) ==
    LET IsOther(p) == ~IsRest(p) IN
    DerivesLists(orig) =>
        /\ Get(detail.itinerary, "spots") = Arr(SelectSeq(ScheduleDicts(orig), IsOther))
        /\ Get(detail.itinerary, "restaurants") = Arr(SelectSeq(ScheduleDicts(orig), IsRest))
        /\ Len(Items(Get(detail.itinerary, "spots")))
             + Len(Items(Get(detail.itinerary, "restaurants")))
             = Len(ScheduleDicts(orig))
ListsDerivedFrom(detail, orig) == ListsDerivedBy(detail, orig, SaysRestaurant)

\* the iteration of the persist loop commits its row
CommitsDay == pc /= "in_day" /\ pc' = "in_day"

\* C25 as stated: for a day whose spots and restaurants are both empty and whose
\* schedule is not, the derived restaurants are the dict activities whose type is
\* "restaurant" or whose type is absent while a cuisine, cuisine_type or price_range
\* is present, the derived spots the others.
C25_ListsByPresentKeys ==
    [][ CommitsDay =>
          ListsDerivedBy([itinerary |-> DayItinerary(itinerary_data', day_num + 1)],
                         DayItinerary(itinerary_data, day_num + 1), HasTypeRestaurant) ]_vars

\* C25 amended: for a day whose spots and restaurants are both empty and whose schedule
\* is not, the derived restaurants are the dict activities of morning, afternoon and
\* evening, in that order, whose type is "restaurant", or whose type is missing, null
\* or empty while one of cuisine, cuisine_type, price_range has a value that is not;
\* the derived spots are the other dict activities in the same order; together they
\* are as many as the dict activities of the schedule.
\* Checked on every iteration of the persist loop that commits its row, on the plan
\* of the day after the derivation against the plan as it was before the iteration;
\* the detail recorded for the day holds that plan.
C25_DerivedListsPartitionSchedule ==
    [][ /\ CommitsDay =>
              ListsDerivedFrom([itinerary |-> DayItinerary(itinerary_data', day_num + 1)],
                               DayItinerary(itinerary_data, day_num + 1))
        /\ Len(itinerary_details') = Len(itinerary_details) + 1 =>
              Last(itinerary_details').itinerary = DayItinerary(itinerary_data, day_num + 1) ]_vars

\* a day is recorded whose restaurants hold an activity with an empty type and a
\* cuisine, one with a price_range and one with a cuisine_type, and whose spots hold
\* the activity with an empty cuisine
C25_Witness ==
    \E k \in 1..Len(itinerary_details) :
        /\ DerivesLists(ParsedDay(itinerary_details[k].day_number))
        /\ Len(Items(Get(itinerary_details[k].itinerary, "restaurants"))) = 4
        /\ Get(Items(Get(itinerary_details[k].itinerary, "restaurants"))[1], "type") = Str("")
        /\ HasKey(Items(Get(itinerary_details[k].itinerary, "restaurants"))[2], "price_range")
        /\ HasKey(Items(Get(itinerary_details[k].itinerary, "restaurants"))[3], "cuisine_type")
        /\ Items(Get(itinerary_details[k].itinerary, "spots"))
              = <<Obj(<<Pair("name", Str("B")), Pair("cuisine", Str(""))>>)>>

\* the synthesized items of a day event, morning first
Synthesized(ev) ==
    LET IsFallback(x) == x.fallback IN
    SelectSeq(ev.items["morning"] \o ev.items["afternoon"] \o ev.items["evening"], IsFallback)

\* the item is the attraction at index 2(d-1) or 2(d-1)+1, or the restaurant at index
\* d-1, of the lists of the run (indices counted from 0)
DrawnFromSlice(x) ==
    IF x.category = "spot"
    THEN /\ x.idx \in {0, 1}
         /\ 2 * (x.day - 1) + x.idx + 1 \in 1..Len(attractions)
         /\ x.name = Get(attractions[2 * (x.day - 1) + x.idx + 1], "name")
    ELSE /\ x.day \in 1..Len(restaurants)
         /\ x.name = Get(restaurants[x.day], "name")

\* C28: every synthesized item of day d is the attraction at index 2(d-1) or 2(d-1)+1
\* or the restaurant at index d-1, so that the synthesized items of two different days
\* of a run never hold the same recommendation.
C28_FallbackSlicesDisjoint ==
    \A i \in 1..Len(out) : \A j \in 1..Len(out) :
        (out[i].name = "day" /\ out[j].name = "day") =>
            /\ \A a \in 1..Len(Synthesized(out[i])) : DrawnFromSlice(Synthesized(out[i])[a])
            /\ out[i].day /= out[j].day =>
                  \A a \in 1..Len(Synthesized(out[i])) : \A b \in 1..Len(Synthesized(out[j])) :
                      ~ /\ Synthesized(out[i])[a].name = Synthesized(out[j])[b].name
                        /\ Synthesized(out[i])[a].category = Synthesized(out[j])[b].category

\* two days of a run are out, both synthesized from the attractions
C28_Witness ==
    \E i \in 1..Len(out) : \E j \in 1..Len(out) :
        /\ out[i].name = "day" /\ out[j].name = "day"
        /\ out[i].day = 1 /\ out[j].day = 2
        /\ Len(Synthesized(out[i])) = 3
        /\ Len(Synthesized(out[j])) >= 1

\* the delta fields of the token events of evs, joined in the order of the events
RECURSIVE TokenText(_)
TokenText(evs) ==
    IF evs = <<>> THEN <<>>
    ELSE (IF Head(evs).name = "token" THEN Head(evs).delta ELSE <<>>) \o TokenText(Tail(evs))

\* the run has yielded progress(parse_json): the next statement calls the parser
ReachedParse == \E i \in 1..Len(out) : out[i] = Progress("parse_json")

\* C29: in a run that reaches the parse step, the text the parser is called with is
\* the concatenation, in the order of their emission, of the deltas of the token
\* events of the run, on the path of llm.stream and on the path of llm.invoke.
C29_ParserTextIsTokenText ==
    /\ ReachedParse => text_buf = TokenText(out)
    /\ pc = "fetch" => itinerary_data = ParseItineraryResponse(TokenText(out), inp.days)

\* a text that came in two chunks has been parsed
C29_Witness ==
    /\ pc = "fetch"
    /\ inp.hasStream
    /\ Count(out, "token") = 2
    /\ IsDict(itinerary_data) /\ HasKey(itinerary_data, "day_2")

----------------------------------------------------------------------------
(* Properties of the itinerary_details table under several runs.            *)

\* no two rows of the table have the same plan and day
OneRowPerKey(table) ==
    \A i \in 1..Len(table) : \A j \in 1..Len(table) :
        (table[i].plan = table[j].plan /\ table[i].day = table[j].day) => i = j

\* the keys of the runs
TableKeys == {PlanId, OtherPlanId} \X (1..(MaxDays + OtherDays))

\* the step is a write of the first run, of the other run
MainWrote == Len(outcomes') = Len(outcomes) + 1 /\ Last(outcomes') = "ok"
OtherWrote == Len(other'.outcomes) = Len(other.outcomes) + 1 /\ Last(other'.outcomes) = "ok"

\* the row the first run writes in this step, and the row the other run writes
MainRow == TableRow(PlanId, day_num + 1, Row(DayPrep(itinerary_data, day_num + 1)))
OtherColumns(d) ==
    IF other.kind = "task" THEN TaskRow(TaskPrep(other.data, d)) ELSE Row(DayPrep(other.data, d))
OtherRow == TableRow(other.plan, other.day_num + 1, OtherColumns(other.day_num + 1))

\* the step leaves the rows of every key but that of row as they are
OnlyKeyChanged(row) ==
    \A k \in TableKeys :
        (k[1] /= row.plan \/ k[2] /= row.day) =>
            RowsOf(store', k[1], k[2]) = RowsOf(store, k[1], k[2])

\* the table after the write of row holds row for its key, and writing row again
\* leaves the table unchanged
Written(row) ==
    /\ RowsOf(store', row.plan, row.day) = <<row>>
    /\ OnlyKeyChanged(row)
    /\ Upsert(store', inp.key, row.plan, row.day, row.row) = store'

\* C26: whatever runs write to the table, one after the other or interleaved, the
\* table never holds two rows of the same plan and day; after a write the row of the
\* key carries what was written and the rows of the other keys are untouched, so each
\* row carries its most recent write; repeating the write leaves the table unchanged;
\* and no step of a run but a write changes the table.
C26_UpsertKeepsOneRowPerKey ==
    [][ other.kind /= "setup" =>
          /\ OneRowPerKey(store')
          /\ MainWrote => Written(MainRow)
          /\ OtherWrote => Written(OtherRow)
          /\ (~MainWrote /\ ~OtherWrote) => store' = store ]_vars

\* what belongs to the first run alone
MainVars ==
    <<inp, pc, out, chunks, llm_fails, text_buf, itinerary_data, attractions, restaurants,
      flights, accommodations, day_num, itinerary_details, calls, outcomes, fault>>

\* the rows of a plan in the order of the table
RowsOfPlan(table, plan) ==
    LET OfPlan(r) == r.plan = plan IN SelectSeq(table, OfPlan)

\* the JSON columns of the row of day d of the first run: those of its detail, or,
\* between the commit and the detail, those of the day's plan
MainColumns(d) ==
    IF d <= Len(itinerary_details)
    THEN [itinerary |-> Column(itinerary_details[d].itinerary),
          spots |-> Column(itinerary_details[d].spots),
          restaurants |-> Column(itinerary_details[d].restaurants)]
    ELSE Row(DayPrep(itinerary_data, d))

\* the rows the first run has written so far, as its details and outcomes tell
WrittenByMain ==
    LET WroteDay(d) == outcomes[d] = "ok"
        days == SelectSeq([d \in 1..Len(outcomes) |-> d], WroteDay)
    IN [k \in 1..Len(days) |-> TableRow(PlanId, days[k], MainColumns(days[k]))]

\* the rows the other run has written so far
WrittenByOther ==
    LET OtherWroteDay(d) == other.outcomes[d] = "ok"
        days == SelectSeq([d \in 1..Len(other.outcomes) |-> d], OtherWroteDay)
    IN [k \in 1..Len(days) |-> TableRow(other.plan, days[k], OtherColumns(days[k]))]

\* the other request is a generation run (a stream or generate_itinerary)
OtherGenerates == other.kind \in {"stream", "task"}

\* C27: when the two runs have different plans and their steps interleave in any
\* order, a step of one run changes neither the events, the position and the data of
\* the other run nor the rows of the other run's plan, and the rows of each plan are
\* at every moment those its own run has written, as if it ran alone.
C27_RunsOfDifferentPlansIndependent ==
    /\ []((OtherGenerates /\ other.plan /= PlanId) =>
            /\ RowsOfPlan(store, PlanId) = WrittenByMain
            /\ RowsOfPlan(store, other.plan) = WrittenByOther)
    /\ [][ (OtherGenerates /\ other.plan /= PlanId) =>
              /\ other' /= other =>
                    /\ MainVars' = MainVars
                    /\ RowsOfPlan(store', PlanId) = RowsOfPlan(store, PlanId)
              /\ MainVars' /= MainVars =>
                    /\ other' = other
                    /\ RowsOfPlan(store', other.plan) = RowsOfPlan(store, other.plan) ]_vars

\* the first run wrote its day 1, the other run its day 1, the first run its day 2,
\* and the table holds the three rows in that order
C27_Witness ==
    /\ inp.world = "other"
    /\ other.outcomes = <<"ok">>
    /\ outcomes = <<"ok", "ok">>
    /\ Len(store) = 3
    /\ store[1].plan = PlanId /\ store[2].plan = OtherPlanId /\ store[3].plan = PlanId

\* C30: once a run for N days has yielded its result event, the rows of its plan are
\* those of the days 1..N and no other.
C30_RowsAreDaysOneToN ==
    Has(out, "result") =>
        {store[i].day : i \in {j \in 1..Len(store) : store[j].plan = PlanId}} = 1..inp.days

====
